---- MODULE Spec2Model ----
(***************************************************************************)
(* lilith-core: score calibration / fusion ranking (common/ranking.py) and *)
(* the hybrid search orchestrator (common/search.py).                      *)
(*                                                                         *)
(* Number representation.  Python floats are modelled by exact fractions   *)
(* over fixed denominators:                                                *)
(*   - a score is counted in halves (0, 1, 2 stand for 0.0, 0.5, 1.0);     *)
(*   - a method weight is counted in twentieths (1.0 = 20, 0.85 = 17);     *)
(*   - recency boost and reliability prior are counted in hundredths;      *)
(*   - a signal (w*raw + (1-w)*norm) is counted in fortieths;              *)
(*   - mean is a fraction [n, d]; std is sqrt(n)/d, kept as [n, d].        *)
(* A Python dict whose iteration order the code observes is a sequence of  *)
(* <<key, value>> pairs in insertion order; a dict whose order is never    *)
(* observed (the calibration state, metadata) is a function.               *)
(***************************************************************************)
EXTENDS Integers, Sequences, FiniteSets, TLC

VARIABLES
    state,            \* MCPScoreRanker._state (in-memory calibration state)
    dirty_count,      \* MCPScoreRanker._dirty_count
    artifact,         \* content of the file at _artifact_path
    call,             \* the operation that ran last: "init", "rank_results", "search",
                      \* "crash", "rerank", "rrf_fusion"
    raised,           \* TRUE when the last operation raised to its caller
    results,          \* rank_results: the results argument, as passed
    top_k,            \* rank_results / search: the top_k argument
    scored,           \* rank_results: the results after the scoring loop, with final score
    ranked,           \* rank_results: the returned list
    pre_state,        \* _state as it was when the last operation started
    observed,         \* history: per (source, method), every clamped score recorded
    drift_calls,      \* history: per (source, method), the calls that flagged drift
    saves,            \* history: number of _save_state attempts
    calls,            \* history: number of operations run
    cycles,           \* history: update cycles (calls that recorded an observation)
    snapshots,        \* history: "sources" after each of the last update cycles
    save_log,         \* history: the cycle and the outcome of every save attempt
    saved_now,        \* history: the outcome of the last call's save attempt, or "none"
    query,            \* search: the query argument (a sequence of characters)
    methods,          \* search: the methods argument (a sequence, or NoMethods)
    outcomes,         \* search: what each retrieval method does when invoked
    invoked,          \* search: the retrieval methods invoked, in order
    methods_executed, \* search: the returned methods_executed list
    fusion_results,   \* search: the records handed to the ranker
    results_groups,   \* rrf_fusion: the results_groups argument
    rrf_k,            \* rrf_fusion: the k argument
    fused,            \* rrf_fusion: the list returned
    threads           \* per thread inside rank_results: its position and locals

vars == <<state, dirty_count, artifact, call, raised, results, top_k, scored,
          ranked, pre_state, observed, drift_calls, saves, calls, cycles, snapshots, save_log,
          saved_now, query, methods, outcomes, invoked, methods_executed,
          fusion_results, results_groups, rrf_k, fused, threads>>

searchVars == <<query, methods, outcomes, invoked, methods_executed, fusion_results>>

rrfVars == <<results_groups, rrf_k, fused>>

----------------------------------------------------------------------------
(* Arithmetic helpers *)

Min(a, b) == IF a <= b THEN a ELSE b
Max(a, b) == IF a >= b THEN a ELSE b
Abs(a) == IF a < 0 THEN -a ELSE a

RECURSIVE GCD(_, _)
GCD(a, b) == IF b = 0 THEN a ELSE GCD(b, a % b)

\* Loops over a long list are evaluated by halving the index range, which
\* visits the elements in list order with a shallow recursion.

\* sum(s[lo..hi])
RECURSIVE SumRange(_, _, _)
SumRange(s, lo, hi) ==
    IF lo > hi THEN 0
    ELSE IF lo = hi THEN s[lo]
    ELSE LET mid == (lo + hi) \div 2
         IN  SumRange(s, lo, mid) + SumRange(s, mid + 1, hi)

SeqSum(s) == SumRange(s, 1, Len(s))

SeqSumSq(s) == SumRange([i \in 1..Len(s) |-> s[i] * s[i]], 1, Len(s))

\* min(s), max(s) of a non-empty list
SeqMin(s) ==
    CHOOSE x \in {s[i] : i \in 1..Len(s)} : \A i \in 1..Len(s) : x <= s[i]

SeqMax(s) ==
    CHOOSE x \in {s[i] : i \in 1..Len(s)} : \A i \in 1..Len(s) : x >= s[i]

\* Python s[-n:] for n >= 1
LastN(s, n) == IF Len(s) <= n THEN s ELSE SubSeq(s, Len(s) - n + 1, Len(s))

\* Python s[:k]
Prefix(s, k) ==
    IF k >= 0 THEN SubSeq(s, 1, Min(k, Len(s)))
    ELSE SubSeq(s, 1, Max(0, Len(s) + k))

----------------------------------------------------------------------------
(* Ordered dicts: sequences of <<key, value>> *)

DictKeys(d) == {d[i][1] : i \in 1..Len(d)}

DictHas(d, k) == \E i \in 1..Len(d) : d[i][1] = k

DictGet(d, k, default) ==
    IF DictHas(d, k)
    THEN d[CHOOSE i \in 1..Len(d) : d[i][1] = k][2]
    ELSE default

\* d[k] = v: an existing key keeps its place, a new key goes last
DictPut(d, k, v) ==
    IF DictHas(d, k)
    THEN [d EXCEPT ![CHOOSE i \in 1..Len(d) : d[i][1] = k] = <<k, v>>]
    ELSE Append(d, <<k, v>>)

----------------------------------------------------------------------------
(* Constants of common/ranking.py and of the settings *)

One == 2                \* the score 1.0, in halves
WindowFloor == 100      \* max(100, ...) in __init__
CfgWindowSize == 100    \* LILITH_SCORE_WINDOW_SIZE of the settings in use
NormMinCount == 20      \* _normalize_score: count < 20
DriftMinCount == 50     \* rank_results: count >= 50
SaveEvery == 10         \* _record_observations: _dirty_count >= 10
DriftZNum == 3          \* LILITH_SCORE_DRIFT_Z = 1.5 = 3/2
DriftZDen == 2
PriorLo == 90           \* reliability prior clamp, in hundredths
PriorHi == 110
PriorDefault == 100

window_size == Max(WindowFloor, CfgWindowSize)

\* _METHOD_WEIGHTS, in twentieths; unknown methods weigh 0.5
MethodWeight(method) ==
    CASE method = "structured" -> 20
      [] method = "fulltext"   -> 17
      [] method = "vector"     -> 14
      [] method = "graph"      -> 18
      [] OTHER                 -> 10

\* LILITH_SOURCE_RELIABILITY_PRIORS of the settings in use (hundredths)
reliability_priors == << <<"web", 108>>, <<"news", 125>>, <<"wiki", 80>> >>

clamp01(v) == Max(0, Min(One, v))

----------------------------------------------------------------------------
(* The calibration state.  _state is a mapping with "version" and "sources" *)
(* (and "updated_at" once saved).  A JSON value that the code expects to be *)
(* a mapping carries the tag dict; dict = FALSE stands for a value *)
(* of another JSON type (a list, a string, null).                           *)

EmptyDict == [k \in {} |-> 0]

DefaultState == [version |-> 1, sources |-> [dict |-> TRUE, items |-> EmptyDict]]

\* the entry _get_stats creates: "no prior evidence"
DefaultStats ==
    [scores |-> <<>>, count |-> 0, min |-> 0, max |-> One,
     mean |-> [n |-> 0, d |-> 1], std |-> [n |-> 0, d |-> 1], drift_events |-> 0]

\* dict.setdefault(k, v)
SetDefault(f, k, v) ==
    IF k \in DOMAIN f THEN f
    ELSE [x \in DOMAIN f \cup {k} |-> IF x = k THEN v ELSE f[x]]

\* _get_stats: the setdefault chain.  ok = FALSE: .setdefault on a value that is
\* not a mapping raises AttributeError.
get_stats(st, source, method) ==
    IF ~st.sources.dict THEN [ok |-> FALSE, state |-> st]
    ELSE LET srcs  == SetDefault(st.sources.items, source, EmptyDict)
             entry == SetDefault(srcs[source], "methods", EmptyDict)
             meths == SetDefault(entry.methods, method, DefaultStats)
         IN  [ok |-> TRUE,
              state |-> [st EXCEPT !.sources.items =
                           [srcs EXCEPT ![source] = [entry EXCEPT !.methods = meths]]]]

\* the stats _get_stats returns, read from the state it leaves
StatsOf(st, source, method) == st.sources.items[source].methods[method]

HasStats(st, source, method) ==
    /\ st.sources.dict
    /\ source \in DOMAIN st.sources.items
    /\ "methods" \in DOMAIN st.sources.items[source]
    /\ method \in DOMAIN st.sources.items[source].methods

\* every (source, method) pair the state holds statistics for
StatePairs(st) ==
    IF ~st.sources.dict THEN {}
    ELSE {p \in UNION {{<<s, m>> : m \in
                          (IF "methods" \in DOMAIN st.sources.items[s]
                           THEN DOMAIN st.sources.items[s].methods ELSE {})}
                        : s \in DOMAIN st.sources.items} : TRUE}

----------------------------------------------------------------------------
(* Fractions n/d with d > 0, kept in lowest terms *)

Frac(n, d) == LET g == GCD(n, d) IN [n |-> n \div g, d |-> d \div g]

\* a < b, compared over the least common denominator
FracLess(a, b) ==
    a.n * (b.d \div GCD(a.d, b.d)) < b.n * (a.d \div GCD(a.d, b.d))

\* Python round(x, 4) of the fraction n/d >= 0, in ten-thousandths
Round4(n, d) ==
    LET q1 == (n * 100) \div d
        r1 == (n * 100) % d
        q2 == (r1 * 100) \div d
        r2 == (r1 * 100) % d
        q  == q1 * 100 + q2
    IN  IF 2 * r2 < d THEN q
        ELSE IF 2 * r2 > d THEN q + 1
        ELSE IF q % 2 = 0 THEN q ELSE q + 1

----------------------------------------------------------------------------
(* Scoring *)

\* _normalize_score without the count threshold: min-max normalization from the
\* first sample on
NormalizeAlways(stats, raw_score) ==
    IF stats.max - stats.min <= 0 THEN raw_score
    ELSE clamp01(((raw_score - stats.min) * One) \div (stats.max - stats.min))

\* _normalize_score, given the stats of the pair (in halves).  On the grid of
\* halves max - min < 1e-6 exactly when max = min.
NormalizeWith(stats, raw_score) ==
    IF stats.count < NormMinCount THEN raw_score
    ELSE IF stats.max - stats.min <= 0 THEN raw_score
    ELSE clamp01(((raw_score - stats.min) * One) \div (stats.max - stats.min))

\* _normalize_score, lines 176-183, given what _get_stats returned
NormalizeFrom(g, source, method, raw_score) ==
    IF ~g.ok THEN [ok |-> FALSE, state |-> g.state, norm |-> 0]
    ELSE [ok |-> TRUE, state |-> g.state,
          norm |-> NormalizeWith(StatsOf(g.state, source, method), raw_score)]

\* _normalize_score: [ok, state, norm]
normalize_score(st, source, method, raw_score) ==
    NormalizeFrom(get_stats(st, source, method), source, method, raw_score)

\* _parse_timestamp and _compute_recency_boost, in hundredths.  A timestamp is
\* "none" (None or empty), "garbage" (fromisoformat raises ValueError), or a
\* parseable instant named by its age at the time of the call: "now",
\* "future" (age clamps to 0), "aged" (0.05*exp(-age/half_life) = 0.02) and
\* "ancient" (exp underflows to 0).
compute_recency_boost(timestamp) ==
    CASE timestamp = "none"    -> 100
      [] timestamp = "garbage" -> 100
      [] timestamp = "now"     -> 105
      [] timestamp = "future"  -> 105
      [] timestamp = "aged"    -> 102
      [] OTHER                 -> 100

\* _get_reliability_prior with the two lookups exchanged: a learned prior, when
\* the state holds one, is used before the configured one
get_reliability_prior_learned_first(st, source) ==
    IF /\ st.sources.dict
       /\ source \in DOMAIN st.sources.items
       /\ "reliability_prior" \in DOMAIN st.sources.items[source]
    THEN [ok |-> TRUE,
          prior |-> Max(PriorLo, Min(PriorHi, st.sources.items[source].reliability_prior))]
    ELSE IF DictHas(reliability_priors, source)
    THEN [ok |-> TRUE,
          prior |-> Max(PriorLo, Min(PriorHi, DictGet(reliability_priors, source, 0)))]
    ELSE IF ~st.sources.dict THEN [ok |-> FALSE, prior |-> 0]
    ELSE [ok |-> TRUE, prior |-> PriorDefault]

\* _get_reliability_prior: [ok, prior] in hundredths
get_reliability_prior(st, source) ==
    IF DictHas(reliability_priors, source)
    THEN [ok |-> TRUE,
          prior |-> Max(PriorLo, Min(PriorHi, DictGet(reliability_priors, source, 0)))]
    ELSE IF ~st.sources.dict THEN [ok |-> FALSE, prior |-> 0]
    ELSE LET source_state == IF source \in DOMAIN st.sources.items
                             THEN st.sources.items[source] ELSE EmptyDict
             prior == IF "reliability_prior" \in DOMAIN source_state
                      THEN source_state.reliability_prior ELSE PriorDefault
         IN  [ok |-> TRUE, prior |-> Max(PriorLo, Min(PriorHi, prior))]

\* float(score): a score is [num |-> TRUE, v |-> halves] or, when float()
\* raises TypeError/ValueError (None, "n/a"), [num |-> FALSE, v |-> 0]
IsNumeric(score) == score.num

\* lines 141-150: the signal of one method joins the sums and the trace
AddSignal(acc, method, raw, nz, drift, raw_weight) ==
    IF ~nz.ok THEN [acc EXCEPT !.ok = FALSE]
    ELSE [ok |-> TRUE,
          state |-> nz.state,
          total_weight |-> acc.total_weight + MethodWeight(method),
          weighted_signal |-> acc.weighted_signal
              + (raw_weight * raw + (20 - raw_weight) * nz.norm) * MethodWeight(method),
          normalized_scores |-> DictPut(acc.normalized_scores, method, nz.norm),
          method_signals |-> DictPut(acc.method_signals, method,
                                     raw_weight * raw + (20 - raw_weight) * nz.norm),
          drifted_methods |-> IF drift THEN Append(acc.drifted_methods, method)
                              ELSE acc.drifted_methods,
          raw_scores |-> DictPut(acc.raw_scores, method, raw)]

\* lines 136-150 for a numeric score: raw_weight is 0.85 under drift, else 0.7
ScoreMethod(acc, source, method, raw, drift) ==
    AddSignal(acc, method, raw, normalize_score(acc.state, source, method, raw),
              drift, IF drift THEN 17 ELSE 14)

\* lines 131-150 with a score that float() rejects taken as 0.0
ScoreEntryAsZero(acc, source, method, score, drift_flags) ==
    IF ~acc.ok THEN acc
    ELSE ScoreMethod(acc, source, method, clamp01(score.v),
                     DictGet(drift_flags, <<source, method>>, FALSE))

\* lines 131-150: one pass of the loop over scores.items()
ScoreEntry(acc, source, method, score, drift_flags) ==
    IF ~acc.ok \/ ~IsNumeric(score) THEN acc
    ELSE ScoreMethod(acc, source, method, clamp01(score.v),
                     DictGet(drift_flags, <<source, method>>, FALSE))

\* lines 131-150: the loop of _score_result over scores.items()
RECURSIVE ScoreLoop(_, _, _, _, _)
ScoreLoop(acc, source, scores, drift_flags, i) ==
    IF i > Len(scores) THEN acc
    ELSE ScoreLoop(ScoreEntry(acc, source, scores[i][1], scores[i][2], drift_flags),
                   source, scores, drift_flags, i + 1)

learned_enabled == FALSE    \* LILITH_ENABLE_LEARNED_RANKING

\* line 152 with a neutral base score of 0.5 for a result without scores
BaseScoreNeutral(acc) ==
    IF acc.total_weight > 0 THEN Frac(acc.weighted_signal, 40 * acc.total_weight)
    ELSE [n |-> 1, d |-> 2]

\* line 152
BaseScore(acc) ==
    IF acc.total_weight > 0 THEN Frac(acc.weighted_signal, 40 * acc.total_weight)
    ELSE [n |-> 0, d |-> 1]

\* _clamp01 of a fraction
ClampFrac(x) == IF x.n > x.d THEN [n |-> 1, d |-> 1] ELSE x

\* lines 157-159: clamp01(base * (0.9 + 0.05 * recency + 0.05 * prior)); the
\* boost and the prior are in hundredths, so the multiplier is in 1/2000
FinalScore(base_score, recency_boost, prior) ==
    ClampFrac(Frac(base_score.n * (1800 + recency_boost + prior), base_score.d * 2000))

\* lines 161-171: rounded values are in ten-thousandths
Trace(acc, base_score, recency_boost, prior, final_score) ==
    [raw_scores |-> acc.raw_scores,
     normalized_scores |-> acc.normalized_scores,
     method_signals |-> acc.method_signals,
     base_score |-> Round4(base_score.n, base_score.d),
     recency_boost |-> recency_boost * 100,
     reliability_prior |-> prior * 100,
     drift_detected_methods |-> acc.drifted_methods,
     learned_ranking_enabled |-> learned_enabled,
     final_score |-> Round4(final_score.n, final_score.d)]

Scored(acc, base_score, recency_boost, prior, final_score) ==
    [ok |-> TRUE, state |-> acc.state, score |-> final_score,
     trace |-> Trace(acc, base_score, recency_boost, prior, final_score)]

\* lines 152-172, given the sums of the loop and the prior
ScoreWith(acc, timestamp, rp, base_score) ==
    IF ~acc.ok \/ ~rp.ok
    THEN [ok |-> FALSE, state |-> acc.state, score |-> [n |-> 0, d |-> 1],
          trace |-> EmptyDict]
    ELSE Scored(acc, base_score, compute_recency_boost(timestamp), rp.prior,
                FinalScore(base_score, compute_recency_boost(timestamp), rp.prior))

ScoreOf(acc, result) ==
    ScoreWith(acc, result.timestamp,
              IF acc.ok THEN get_reliability_prior(acc.state, result.source)
              ELSE [ok |-> FALSE, prior |-> 0],
              BaseScore(acc))

\* _score_result: [ok, state, score, trace]
score_result(st, result, drift_flags) ==
    ScoreOf(ScoreLoop([ok |-> TRUE, state |-> st, total_weight |-> 0,
                       weighted_signal |-> 0, normalized_scores |-> <<>>,
                       method_signals |-> <<>>, drifted_methods |-> <<>>,
                       raw_scores |-> <<>>],
                      result.source, result.scores, drift_flags, 1),
            result)

----------------------------------------------------------------------------
(* rank_results *)

\* lines 81-86: the scores of one result go to their (source, method) groups
RECURSIVE GroupScores(_, _, _, _)
GroupScores(groups, source, scores, j) ==
    IF j > Len(scores) THEN groups
    ELSE LET method == scores[j][1]
             score  == scores[j][2]
             key    == <<source, method>>
         IN  IF ~IsNumeric(score) THEN GroupScores(groups, source, scores, j + 1)
             ELSE GroupScores(
                    DictPut(groups, key,
                            Append(DictGet(groups, key, <<>>), clamp01(score.v))),
                    source, scores, j + 1)

\* the groups of two consecutive stretches of results, put together: the keys
\* in first-seen order, each key's scores in result order
RECURSIVE MergeGroups(_, _, _)
MergeGroups(a, b, j) ==
    IF j > Len(b) THEN a
    ELSE MergeGroups(DictPut(a, b[j][1], DictGet(a, b[j][1], <<>>) \o b[j][2]),
                     b, j + 1)

\* lines 75-86: method_groups, an ordered dict (source, method) -> clamped
\* scores, of the results rs[lo..hi]
RECURSIVE MethodGroups(_, _, _)
MethodGroups(rs, lo, hi) ==
    IF lo > hi THEN <<>>
    ELSE IF lo = hi
    THEN IF rs[lo].source = "" THEN <<>>
         ELSE GroupScores(<<>>, rs[lo].source, rs[lo].scores, 1)
    ELSE LET mid == (lo + hi) \div 2
         IN  MergeGroups(MethodGroups(rs, lo, mid), MethodGroups(rs, mid + 1, hi), 1)

\* lines 92-99: |query_mean - mean| > drift_z * std, for count >= 50, std > 1e-6.
\* With mean = mn/md and std = sqrt(vn)/sd the comparison is made on squares,
\* after cancelling the common factor of md and sd.  std > 1e-6 exactly when
\* the radicand is positive (the smallest positive std of a window of halves
\* is far above 1e-6).
DriftOf(stats, values) ==
    LET qs == SeqSum(values)
        qn == Len(values)
        g  == GCD(stats.mean.d, stats.std.d)
        md == stats.mean.d \div g
        sd == stats.std.d \div g
        lhs == DriftZDen * sd * Abs(qs * stats.mean.d - stats.mean.n * qn)
        rhs == DriftZNum * qn * md
    IN  /\ stats.count >= DriftMinCount
        /\ stats.std.n > 0
        /\ lhs * lhs > rhs * rhs * stats.std.n

\* lines 90-100 for one group, given what _get_stats returned
DriftStep(acc, key, values, g) ==
    IF ~g.ok THEN [acc EXCEPT !.ok = FALSE]
    ELSE [ok |-> TRUE, state |-> g.state,
          flags |-> DictPut(acc.flags, key,
                            DriftOf(StatsOf(g.state, key[1], key[2]), values))]

\* lines 88-100: drift_flags; [ok, state, flags]
RECURSIVE DriftLoop(_, _, _)
DriftLoop(acc, groups, i) ==
    IF i > Len(groups) \/ ~acc.ok THEN acc
    ELSE DriftLoop(DriftStep(acc, groups[i][1], groups[i][2],
                             get_stats(acc.state, groups[i][1][1], groups[i][1][2])),
                   groups, i + 1)

\* lines 105-107 with meta = {"fusion_trace": trace}: the result's own metadata
\* is dropped
AttachTraceOnly(r, trace) == [r EXCEPT !.metadata = [fusion_trace |-> trace]]

\* lines 105-107: meta = dict(r.get("metadata") or {}); meta["fusion_trace"] = trace
AttachTrace(r, trace) ==
    [r EXCEPT !.metadata =
        [k \in DOMAIN r.metadata \cup {"fusion_trace"} |->
            IF k = "fusion_trace" THEN trace ELSE r.metadata[k]]]

\* lines 105-108, given what _score_result returned
Annotate(acc, r, sr) ==
    IF ~sr.ok THEN [acc EXCEPT !.ok = FALSE, !.state = sr.state]
    ELSE [ok |-> TRUE, state |-> sr.state,
          scored |-> Append(acc.scored,
                            [score |-> sr.score, r |-> AttachTrace(r, sr.trace)])]

\* lines 103-108 with drift decided per item: the flags are those of the
\* result's own scores, not of the batch
ScoreStepOwnDrift(acc, r, drift_flags) ==
    Annotate(acc, r,
             score_result(acc.state, r,
                          DriftLoop([ok |-> TRUE, state |-> acc.state, flags |-> <<>>],
                                    MethodGroups(<<r>>, 1, 1), 1).flags))

\* lines 103-108: one pass of the scoring loop
ScoreStep(acc, r, drift_flags) ==
    Annotate(acc, r, score_result(acc.state, r, drift_flags))

\* lines 102-108: the scoring loop over rs[lo..hi]; [ok, state, scored]
RECURSIVE ScoringLoop(_, _, _, _, _)
ScoringLoop(acc, rs, drift_flags, lo, hi) ==
    IF lo > hi \/ ~acc.ok THEN acc
    ELSE IF lo = hi THEN ScoreStep(acc, rs[lo], drift_flags)
    ELSE LET mid == (lo + hi) \div 2
         IN  ScoringLoop(ScoringLoop(acc, rs, drift_flags, lo, mid),
                         rs, drift_flags, mid + 1, hi)

\* line 110: scored.sort(key=score, reverse=True): a stable sort, equal keys
\* keep their order
RECURSIVE SortBuckets(_, _)
SortBuckets(s, keys) ==
    IF keys = {} THEN <<>>
    ELSE LET top == CHOOSE k \in keys : \A o \in keys : ~FracLess(k, o)
         IN  SelectSeq(s, LAMBDA e : e.score = top) \o SortBuckets(s, keys \ {top})

\* line 110 without reverse=True: an ascending stable sort
RECURSIVE SortBucketsAsc(_, _)
SortBucketsAsc(s, keys) ==
    IF keys = {} THEN <<>>
    ELSE LET low == CHOOSE k \in keys : \A o \in keys : ~FracLess(o, k)
         IN  SelectSeq(s, LAMBDA e : e.score = low) \o SortBucketsAsc(s, keys \ {low})

SortByScoreAsc(s) == SortBucketsAsc(s, {s[i].score : i \in 1..Len(s)})

\* line 110 with a sort that is not stable: equal keys end in reverse order
Reverse(s) == [i \in 1..Len(s) |-> s[Len(s) + 1 - i]]
SortByScoreDescReversingTies(s) == Reverse(SortByScoreAsc(s))

SortByScoreDesc(s) == SortBuckets(s, {s[i].score : i \in 1..Len(s)})

\* line 111: ranked = [r for _, r in scored[:top_k]]
TakeRanked(sorted, k) ==
    LET cut == Prefix(sorted, k) IN [i \in 1..Len(cut) |-> cut[i].r]

\* lines 260-272: the statistics of the retained window
StatsFrom(merged, total, sumsq, drift_events) ==
    IF Len(merged) = 0
    THEN [scores |-> merged, count |-> 0, min |-> 0, max |-> One,
          mean |-> [n |-> 0, d |-> 1], std |-> [n |-> 0, d |-> 1],
          drift_events |-> drift_events]
    ELSE [scores |-> merged,
          count  |-> Len(merged),
          min    |-> SeqMin(merged),
          max    |-> SeqMax(merged),
          mean   |-> [n |-> total, d |-> Len(merged)],
          std    |-> [n |-> Len(merged) * sumsq - total * total, d |-> Len(merged)],
          drift_events |-> drift_events]

StatsOfWindow(merged, drift_events) ==
    StatsFrom(merged, SeqSum(merged), SeqSumSq(merged), drift_events)

\* lines 257-258 with merged[:window_size]: the newest samples are dropped
EvictNewest(all) ==
    IF Len(all) > window_size THEN SubSeq(all, 1, window_size) ELSE all

\* lines 257-258: merged[-window_size:] when the window is exceeded
Evict(all) == IF Len(all) > window_size THEN LastN(all, window_size) ELSE all

\* lines 253-272 with drift_events incremented in every update of the pair
UpdatedStatsCountingAll(stats, values, drift) ==
    StatsOfWindow(Evict(stats.scores \o values), stats.drift_events + 1)

\* lines 253-272 for one (source, method): the new stats of the pair.  The
\* stored scores are numbers, so the isinstance filter of line 254 keeps all.
UpdatedStats(stats, values, drift) ==
    StatsOfWindow(Evict(stats.scores \o values),
                  IF drift THEN stats.drift_events + 1 ELSE stats.drift_events)

\* lines 252-272 for one group, given what _get_stats returned
RecordStep(acc, key, values, drift, g) ==
    IF ~g.ok THEN [acc EXCEPT !.ok = FALSE]
    ELSE [ok |-> TRUE,
          state |-> [g.state EXCEPT !.sources.items[key[1]].methods[key[2]] =
                        UpdatedStats(StatsOf(g.state, key[1], key[2]), values, drift)]]

\* lines 251-272: the loop of _record_observations; [ok, state]
RECURSIVE RecordLoop(_, _, _, _)
RecordLoop(acc, groups, drift_flags, i) ==
    IF i > Len(groups) \/ ~acc.ok THEN acc
    ELSE RecordLoop(RecordStep(acc, groups[i][1], groups[i][2],
                               DictGet(drift_flags, groups[i][1], FALSE),
                               get_stats(acc.state, groups[i][1][1], groups[i][1][2])),
                    groups, drift_flags, i + 1)

----------------------------------------------------------------------------
(* Persistence *)

FileMissing == [kind |-> "missing"]
\* unreadable bytes, or text that json.loads rejects (an empty or truncated file)
FileGarbage == [kind |-> "garbage"]
\* valid JSON that is not a mapping (a list, a number)
FileNotMapping == [kind |-> "json", mapping |-> FALSE]
FileOf(data) == [kind |-> "json", mapping |-> TRUE, data |-> data]

\* _load_state
load_state(file) ==
    IF file.kind = "missing" THEN DefaultState
    ELSE IF file.kind = "garbage" THEN DefaultState
    ELSE IF ~file.mapping THEN DefaultState
    ELSE SetDefault(SetDefault(file.data, "version", 1),
                    "sources", [dict |-> TRUE, items |-> EmptyDict])

\* what write_text can do: "ok"; "error_untouched" (mkdir or open fails, the file
\* is as it was); "error_truncated" (the write fails after open truncated the file)
SaveOutcomes == {"ok", "error_untouched", "error_truncated"}

\* line 220: self._state["updated_at"] = now
Stamp(st, now) ==
    [k \in DOMAIN st \cup {"updated_at"} |-> IF k = "updated_at" THEN now ELSE st[k]]

\* lines 221-225, for the state as stamped
WriteFile(stamped, file, outcome) ==
    [state |-> stamped,
     artifact |-> CASE outcome = "ok" -> FileOf(stamped)
                    [] outcome = "error_truncated" -> FileGarbage
                    [] OTHER -> file]

\* _save_state with the given outcome: [state, artifact]; the error, if any, is
\* caught by the caller
save_state(st, file, now, outcome) == WriteFile(Stamp(st, now), file, outcome)

\* a writer that updates the file in place, field by field: its death leaves
\* the new time stamp over the old statistics
CrashFilesInPlace(file, stamped) ==
    {file, FileOf([stamped EXCEPT !.sources = load_state(file).sources])}

\* lines 221-225 cut short by the death of the process: the file is as it was
\* (before open), holds a proper prefix of the new text, which json.loads
\* rejects (open truncates, and the text of a JSON object ends with its only
\* closing brace), or holds the whole new text
CrashFiles(file, stamped) == {file, FileGarbage, FileOf(stamped)}

Saved(sv) ==
    [ok |-> TRUE, state |-> sv.state, dirty_count |-> 0, artifact |-> sv.artifact,
     saved |-> TRUE]

\* lines 274-280 with "> 10" in place of ">= 10"
DebounceLate(st, dirty, file, now, outcome) ==
    IF dirty + 1 > SaveEvery
    THEN Saved(save_state(st, file, now, outcome))
    ELSE [ok |-> TRUE, state |-> st, dirty_count |-> dirty + 1, artifact |-> file,
          saved |-> FALSE]

\* lines 274-280 without the try/except: a failing write raises to the caller
DebounceUncaught(st, dirty, file, now, outcome) ==
    IF dirty + 1 >= SaveEvery
    THEN IF outcome = "ok" THEN Saved(save_state(st, file, now, outcome))
         ELSE [ok |-> FALSE, state |-> save_state(st, file, now, outcome).state,
               dirty_count |-> dirty + 1,
               artifact |-> save_state(st, file, now, outcome).artifact,
               saved |-> TRUE]
    ELSE [ok |-> TRUE, state |-> st, dirty_count |-> dirty + 1, artifact |-> file,
          saved |-> FALSE]

\* lines 274-280: the debounce; [ok, state, dirty_count, artifact, saved]
Debounce(st, dirty, file, now, outcome) ==
    IF dirty + 1 >= SaveEvery
    THEN Saved(save_state(st, file, now, outcome))
    ELSE [ok |-> TRUE, state |-> st, dirty_count |-> dirty + 1, artifact |-> file,
          saved |-> FALSE]

\* lines 274-280, after the loop
AfterRecord(rec, dirty, file, now, outcome) ==
    IF ~rec.ok
    THEN [ok |-> FALSE, state |-> rec.state, dirty_count |-> dirty,
          artifact |-> file, saved |-> FALSE]
    ELSE Debounce(rec.state, dirty, file, now, outcome)

\* _record_observations without the early return of lines 249-250
record_observations_always(st, dirty, file, method_groups, drift_flags, now, outcome) ==
    AfterRecord(RecordLoop([ok |-> TRUE, state |-> st], method_groups, drift_flags, 1),
                dirty, file, now, outcome)

\* _record_observations: [ok, state, dirty_count, artifact, saved]
record_observations(st, dirty, file, method_groups, drift_flags, now, outcome) ==
    IF method_groups = <<>>
    THEN [ok |-> TRUE, state |-> st, dirty_count |-> dirty, artifact |-> file,
          saved |-> FALSE]
    ELSE AfterRecord(RecordLoop([ok |-> TRUE, state |-> st], method_groups,
                                drift_flags, 1),
                     dirty, file, now, outcome)

\* what rank_results leaves when it raises, or returns [] at once
Untouched(ok, st, dirty, file) ==
    [ok |-> ok, state |-> st, dirty_count |-> dirty, artifact |-> file,
     saved |-> FALSE, scored |-> <<>>, ranked |-> <<>>, groups |-> <<>>,
     flags |-> <<>>]

\* lines 113-114, given what _record_observations did
Returned(rec, dirty, file, sl, ranked_list, groups, flags) ==
    IF ~rec.ok THEN Untouched(FALSE, rec.state, dirty, file)
    ELSE [ok |-> TRUE, state |-> rec.state, dirty_count |-> rec.dirty_count,
          artifact |-> rec.artifact, saved |-> rec.saved, scored |-> sl.scored,
          ranked |-> ranked_list, groups |-> groups, flags |-> flags]

\* lines 110-114 with the observations taken from the returned results only
RankScoredTopOnly(sl, dirty, file, k, groups, flags, now, outcome) ==
    IF ~sl.ok THEN Untouched(FALSE, sl.state, dirty, file)
    ELSE Returned(record_observations(
                      sl.state, dirty, file,
                      MethodGroups(TakeRanked(SortByScoreDesc(sl.scored), k), 1,
                                   Len(TakeRanked(SortByScoreDesc(sl.scored), k))),
                      flags, now, outcome),
                  dirty, file, sl, TakeRanked(SortByScoreDesc(sl.scored), k),
                  groups, flags)

\* lines 110-114, given the scored results
RankScored(sl, dirty, file, k, groups, flags, now, outcome) ==
    IF ~sl.ok THEN Untouched(FALSE, sl.state, dirty, file)
    ELSE Returned(record_observations(sl.state, dirty, file, groups, flags, now,
                                      outcome),
                  dirty, file, sl, TakeRanked(SortByScoreDesc(sl.scored), k),
                  groups, flags)

\* lines 102-114, given the drift flags
RankFlagged(dl, dirty, file, rs, k, groups, now, outcome) ==
    IF ~dl.ok THEN Untouched(FALSE, dl.state, dirty, file)
    ELSE RankScored(ScoringLoop([ok |-> TRUE, state |-> dl.state, scored |-> <<>>],
                                rs, dl.flags, 1, Len(rs)),
                    dirty, file, k, groups, dl.flags, now, outcome)

\* lines 102-114 with line 113 moved before the scoring loop, given what
\* _record_observations did
ScoredAfterRecord(rec, dirty, file, rs, k, groups, flags) ==
    IF ~rec.ok THEN Untouched(FALSE, rec.state, dirty, file)
    ELSE Returned(rec, dirty, file,
                  ScoringLoop([ok |-> TRUE, state |-> rec.state, scored |-> <<>>],
                              rs, flags, 1, Len(rs)),
                  TakeRanked(SortByScoreDesc(
                      ScoringLoop([ok |-> TRUE, state |-> rec.state, scored |-> <<>>],
                                  rs, flags, 1, Len(rs)).scored), k),
                  groups, flags)

RecordedAfterFlags(dl, dirty, file, rs, k, groups, now, outcome) ==
    IF ~dl.ok THEN Untouched(FALSE, dl.state, dirty, file)
    ELSE ScoredAfterRecord(record_observations(dl.state, dirty, file, groups,
                                               dl.flags, now, outcome),
                           dirty, file, rs, k, groups, dl.flags)

\* lines 88-114 with the calibration update before the scoring loop
RankGroupedRecordFirst(st, dirty, file, rs, k, groups, now, outcome) ==
    RecordedAfterFlags(DriftLoop([ok |-> TRUE, state |-> st, flags |-> <<>>], groups, 1),
                       dirty, file, rs, k, groups, now, outcome)

\* lines 88-114, given method_groups
RankGrouped(st, dirty, file, rs, k, groups, now, outcome) ==
    RankFlagged(DriftLoop([ok |-> TRUE, state |-> st, flags |-> <<>>], groups, 1),
                dirty, file, rs, k, groups, now, outcome)

\* rank_results: [ok, state, dirty_count, artifact, saved, scored, ranked, groups,
\* flags]; ok = FALSE when the call raises
rank_results(st, dirty, file, rs, k, now, outcome) ==
    IF rs = <<>> THEN Untouched(TRUE, st, dirty, file)
    ELSE RankGrouped(st, dirty, file, rs, k, MethodGroups(rs, 1, Len(rs)), now,
                     outcome)

----------------------------------------------------------------------------
(* search (common/search.py) *)

DefaultMethods == <<"structured", "fulltext", "vector">>

InSeq(x, s) == \E i \in 1..Len(s) : s[i] = x

\* line 57: methods = methods or [...].  The argument is [given |-> FALSE]
\* for None and [given |-> TRUE, list |-> ...] for a list.
EffectiveMethods(m) ==
    IF m.given /\ m.list # <<>> THEN m.list ELSE DefaultMethods

IsSpace(c) == c \in {" ", "\t", "\n"}

RECURSIVE LStrip(_)
LStrip(q) == IF q # <<>> /\ IsSpace(Head(q)) THEN LStrip(Tail(q)) ELSE q

RECURSIVE RStrip(_)
RStrip(q) ==
    IF q # <<>> /\ IsSpace(q[Len(q)]) THEN RStrip(SubSeq(q, 1, Len(q) - 1)) ELSE q

\* str.strip()
Strip(q) == RStrip(LStrip(q))

\* lines 90, 104: query and query.strip()
QueryGiven(q) == q # <<>> /\ Strip(q) # <<>>

\* the engine's _get_item_id (tests/test_search_fusion.py: item["id"])
get_item_id(item) == item.id

\* the engine's _format_result (tests/test_search_fusion.py)
format_result(item, scores, methods_used) ==
    [id |-> item.id, source |-> "test_source", timestamp |-> item.timestamp,
     scores |-> scores, methods_used |-> methods_used, metadata |-> EmptyDict]

\* lines 69-73 with lists for both: a second score of the same method is
\* appended instead of replacing the first
MergedAppending(old, method_name, score) ==
    [item |-> old.item,
     scores |-> Append(old.scores, <<method_name, score>>),
     methods |-> Append(old.methods, method_name)]

\* lines 69-73: the entry of one item takes the score of one method
Merged(old, method_name, score) ==
    [item |-> old.item,
     scores |-> DictPut(old.scores, method_name, score),
     methods |-> IF InSeq(method_name, old.methods) THEN old.methods
                 ELSE Append(old.methods, method_name)]

\* lines 68-73: one pass of the loop of add_batch
AddItem(all_results, item, score, method_name) ==
    DictPut(all_results, get_item_id(item),
            Merged(DictGet(all_results, get_item_id(item),
                           [item |-> item, scores |-> <<>>, methods |-> <<>>]),
                   method_name, score))

\* lines 67-73: the loop of add_batch over one batch
RECURSIVE AddItems(_, _, _, _)
AddItems(all_results, batch, method_name, i) ==
    IF i > Len(batch) THEN all_results
    ELSE AddItems(AddItem(all_results, batch[i][1], batch[i][2], method_name),
                  batch, method_name, i + 1)

\* add_batch without the early return on an empty batch
add_batch_unguarded(acc, batch, method_name) ==
    [acc EXCEPT !.methods_executed = Append(acc.methods_executed, method_name),
                !.all_results = AddItems(acc.all_results, batch, method_name, 1)]

\* add_batch: [all_results, methods_executed, invoked]
add_batch(acc, batch, method_name) ==
    IF batch = <<>> THEN acc
    ELSE [acc EXCEPT !.methods_executed = Append(acc.methods_executed, method_name),
                     !.all_results = AddItems(acc.all_results, batch, method_name, 1)]

\* the try block with the method counted as executed before it is called
TryMethodCounted(called, method_name, outcome) ==
    IF outcome.raises
    THEN [called EXCEPT !.methods_executed = Append(called.methods_executed,
                                                    method_name)]
    ELSE add_batch(called, outcome.batch, method_name)

\* the try block of a method that is invoked: an error is caught and logged
TryMethod(called, method_name, outcome) ==
    IF outcome.raises THEN called
    ELSE add_batch(called, outcome.batch, method_name)

\* a guarded block that calls the method a second time when it raised
RunMethodRetrying(acc, method_name, guard, outcome) ==
    IF ~guard THEN acc
    ELSE IF outcome.raises
         THEN [acc EXCEPT !.invoked = acc.invoked \o <<method_name, method_name>>]
         ELSE add_batch([acc EXCEPT !.invoked = Append(acc.invoked, method_name)],
                        outcome.batch, method_name)

\* one of the three guarded blocks (lines 76-87, 90-101, 104-115): the method
\* runs when the guard holds; outcome = [raises, batch]
RunMethod(acc, method_name, guard, outcome) ==
    IF ~guard THEN acc
    ELSE TryMethod([acc EXCEPT !.invoked = Append(acc.invoked, method_name)],
                   method_name, outcome)

\* the guards with "if query" in place of "if query and query.strip()"
GuardUntrimmed(method_name, ms, q) ==
    IF method_name = "structured" THEN InSeq("structured", ms)
    ELSE InSeq(method_name, ms) /\ q # <<>>

\* the guards of lines 76, 90 and 104
Guard(method_name, ms, q) ==
    IF method_name = "structured" THEN InSeq("structured", ms)
    ELSE InSeq(method_name, ms) /\ QueryGiven(q)

\* lines 56-115: [all_results, methods_executed, invoked]
Retrieve(q, m, outs) ==
    RunMethod(
      RunMethod(
        RunMethod([all_results |-> <<>>, methods_executed |-> <<>>, invoked |-> <<>>],
                  "structured", Guard("structured", EffectiveMethods(m), q),
                  outs.structured),
        "fulltext", Guard("fulltext", EffectiveMethods(m), q), outs.fulltext),
      "vector", Guard("vector", EffectiveMethods(m), q), outs.vector)

\* lines 118-121: the formatted records, in the order of all_results
FusionResults(all_results) ==
    [i \in 1..Len(all_results) |->
        format_result(all_results[i][2].item, all_results[i][2].scores,
                      all_results[i][2].methods)]

----------------------------------------------------------------------------
(* rrf_fusion (common/search.py) *)

DefaultK == 60          \* k: int = 60

\* result.get("id") of a result without an id
NoId == "None"

\* a + b, over the least common denominator
FracAdd(a, b) ==
    Frac(a.n * (b.d \div GCD(a.d, b.d)) + b.n * (a.d \div GCD(a.d, b.d)),
         (a.d \div GCD(a.d, b.d)) * b.d)

\* lines 136-139 with ranks counted from 1
RRFAddRankFromOne(scores, result, k, rank) ==
    IF result.id = NoId THEN scores
    ELSE DictPut(scores, result.id,
                 FracAdd(DictGet(scores, result.id, [n |-> 0, d |-> 1]),
                         Frac(1, k + rank + 2)))

\* lines 136-139: one result of a group, at its 0-based rank
RRFAdd(scores, result, k, rank) ==
    IF result.id = NoId THEN scores
    ELSE DictPut(scores, result.id,
                 FracAdd(DictGet(scores, result.id, [n |-> 0, d |-> 1]),
                         Frac(1, k + rank + 1)))

\* lines 135-139: for rank, result in enumerate(group)
RECURSIVE RRFGroup(_, _, _, _)
RRFGroup(scores, group, k, i) ==
    IF i > Len(group) THEN scores
    ELSE RRFGroup(RRFAdd(scores, group[i], k, i - 1), group, k, i + 1)

\* lines 134-139: for group in results_groups
RECURSIVE RRFGroups(_, _, _, _)
RRFGroups(scores, groups, k, g) ==
    IF g > Len(groups) THEN scores
    ELSE RRFGroups(RRFGroup(scores, groups[g], k, 1), groups, k, g + 1)

\* lines 141-145: the entries of the scores dict, sorted by score descending
\* by a stable sort
RRFSorted(scores) ==
    SortByScoreDesc([i \in 1..Len(scores) |->
                        [id |-> scores[i][1], score |-> scores[i][2]]])

rrf_fusion(groups, k) == RRFSorted(RRFGroups(<<>>, groups, k, 1))

----------------------------------------------------------------------------
(* Bounds and inputs *)

MaxCalls == 1          \* operations per run of Spec, SpecSearch and SpecFile
MaxWindowCalls == 4    \* operations per run of SpecWindow
MaxBatch == 2          \* length of a results list drawn from the pool
MaxTopK == 2           \* largest top_k drawn
SavedSamples == 60     \* samples in the window an earlier process saved
BulkLen == 30          \* length of the bulk results lists of SpecWindow
MaxSaveCalls == 21     \* operations per run of SpecSave
MaxRerankCalls == 2    \* operations per run of SpecRerank
MaxLists == 2          \* lists passed to rrf_fusion
MaxListLen == 2        \* results per list passed to rrf_fusion

Num(v) == [num |-> TRUE, v |-> v]
NotNum == [num |-> FALSE, v |-> 0]

Result(id, source, timestamp, scores, metadata) ==
    [id |-> id, source |-> source, timestamp |-> timestamp, scores |-> scores,
     methods_used |-> [i \in 1..Len(scores) |-> scores[i][1]],
     metadata |-> metadata]

StaleTrace == [final_score |-> 9999]

\* the results a caller passes to rank_results
Pool ==
    << Result(1, "email", "now", << <<"vector", Num(2)>> >>, EmptyDict),
       Result(2, "email", "ancient", << <<"vector", Num(1)>> >>, [k |-> 1]),
       Result(3, "email", "future", <<>>,
              [x \in {"k", "fusion_trace"} |-> IF x = "k" THEN 7 ELSE StaleTrace]),
       Result(4, "email", "none",
              << <<"structured", Num(1)>>, <<"vector", NotNum>> >>, EmptyDict),
       Result(5, "web", "garbage",
              << <<"fulltext", Num(3)>>, <<"custom", Num(-1)>> >>, EmptyDict) >>

\* a result with no source
Sourceless == Result(9, "", "aged", << <<"vector", Num(1)>> >>, EmptyDict)

\* the lists of at most MaxBatch results with distinct ids
Batches ==
    UNION {{[i \in 1..n |-> Pool[f[i]]] :
               f \in {g \in [1..n -> 1..Len(Pool)] :
                         \A a, b \in 1..n : a # b => g[a] # g[b]}}
           : n \in 0..MaxBatch}

\* top_k: nothing, one result, and the largest drawn
TopKs == {0, 1, MaxTopK}

\* a list of n results of one source and method whose scores cycle through vs
Bulk(n, source, method, vs) ==
    [i \in 1..n |->
        Result(i, source, "none", << <<method, Num(vs[((i - 1) % Len(vs)) + 1])>> >>,
               EmptyDict)]

WindowBatches ==
    { Bulk(BulkLen, "email", "vector", <<1, 2>>),
      Bulk(BulkLen + 15, "email", "vector", <<0>>),
      Bulk(window_size + 5, "email", "vector", <<0, 1, 2>>),
      <<Pool[1]>>,
      <<Pool[4], Sourceless, Pool[5], Pool[2]>> }

\* a result whose vector score is high and whose other scores are zero
Mixed ==
    Result(6, "email", "none",
           << <<"vector", Num(2)>>, <<"structured", Num(0)>>, <<"fulltext", Num(0)>> >>,
           EmptyDict)

\* a result whose vector score is zero
Low == Result(7, "email", "none", << <<"vector", Num(0)>> >>, EmptyDict)

\* SpecRerank: equal final scores in both orders, differing scores, a result
\* without scores, a pair whose batch mean differs from that of its winner,
\* and a pair of differing scores whose batch mean is far below the saved mean
RerankBatches ==
    { <<Pool[2], Pool[4]>>, <<Pool[4], Pool[2]>>, <<Pool[2], Pool[1]>>,
      <<Mixed, Pool[2]>>, <<Pool[5], Pool[3]>>, <<Pool[1]>>, <<Low, Pool[2]>> }

\* a state file that holds learned priors, within and beyond the clamp, for
\* sources with and without a configured prior
LearnedPriors ==
    [sources |->
        [dict |-> TRUE,
         items |-> [s \in {"email", "web", "news", "wiki", "chat", "memo"} |->
                      [reliability_prior |->
                          CASE s = "email" -> 120
                            [] s = "web"   -> 95
                            [] s = "news"  -> 95
                            [] s = "wiki"  -> 105
                            [] s = "chat"  -> 85
                            [] OTHER       -> 97]]]]

\* one result per source, each with one score and no timestamp
PriorSources == <<"email", "web", "news", "wiki", "chat", "memo", "forum">>

PriorPool ==
    {Result(10 + i, PriorSources[i], "none",
            << <<"structured", Num(1 + (i % 2))>> >>, EmptyDict)
       : i \in 1..Len(PriorSources)}

\* SpecPrior: every result alone and every ordered pair of two results
PriorBatches ==
    {<<a>> : a \in PriorPool}
      \cup {<<ab[1], ab[2]>> : ab \in {p \in PriorPool \X PriorPool : p[1] # p[2]}}

\* rrf_fusion: results with one of two ids or without an id
RRFResults == {[id |-> x] : x \in {"a", "b", NoId}}

RRFLists == UNION {[1..n -> RRFResults] : n \in 0..MaxListLen}

RRFInputs == UNION {[1..n -> RRFLists] : n \in 0..MaxLists}

RRFKs == {1, DefaultK}

\* SpecSave: an empty list, a result without scores, and two scored results
SaveBatches == { <<>>, <<Pool[3]>>, <<Pool[2], Pool[1]>> }

\* the state an earlier process saved after SavedSamples observations
SavedStats ==
    UpdatedStats(DefaultStats,
                 [i \in 1..SavedSamples |-> IF 10 * i <= SavedSamples THEN 1 ELSE 2],
                 FALSE)

SavedState ==
    [k \in {"version", "updated_at", "sources"} |->
        CASE k = "version" -> 1
          [] k = "updated_at" -> 0
          [] OTHER -> [dict |-> TRUE,
                       items |-> [s \in {"email"} |->
                                    [methods |-> [m \in {"vector"} |-> SavedStats]]]]]

\* hand-edited files: "sources" is a list; a learned prior and nothing else
EditedSourcesList == [sources |-> [dict |-> FALSE]]
EditedPrior ==
    [sources |-> [dict |-> TRUE,
                  items |-> [s \in {"email"} |-> [reliability_prior |-> 120]]]]

Files ==
    {FileMissing, FileGarbage, FileNotMapping, FileOf(EmptyDict), FileOf(SavedState),
     FileOf(EditedSourcesList), FileOf(EditedPrior)}

\* search inputs
Item(id, timestamp) == [id |-> id, timestamp |-> timestamp]
Raises == [raises |-> TRUE, batch |-> <<>>]
Returns(batch) == [raises |-> FALSE, batch |-> batch]

StructuredOutcomes ==
    {Raises, Returns(<<>>),
     Returns(<< <<Item(1, "none"), Num(1)>>, <<Item(2, "now"), Num(0)>> >>)}
FulltextOutcomes ==
    {Raises, Returns(<<>>),
     Returns(<< <<Item(2, "now"), Num(2)>>, <<Item(2, "now"), Num(1)>> >>)}
VectorOutcomes ==
    {Raises, Returns(<<>>),
     Returns(<< <<Item(2, "now"), Num(2)>>, <<Item(3, "aged"), Num(1)>> >>)}

Outcomes ==
    [structured : StructuredOutcomes, fulltext : FulltextOutcomes,
     vector : VectorOutcomes]

Queries == {<<>>, <<" ", "\t">>, <<" ", "h", "i", " ">>}

NoMethods == [given |-> FALSE, list |-> <<>>]
MethodsArg(list) == [given |-> TRUE, list |-> list]
MethodArgs ==
    {NoMethods, MethodsArg(<<>>), MethodsArg(<<"vector">>),
     MethodsArg(<<"vector", "structured">>), MethodsArg(<<"fulltext", "graph">>)}

----------------------------------------------------------------------------
(* The state machine *)

\* the threads of the process that call rank_results on the one ranker
Threads == {1, 2}

\* a thread that has not called rank_results: pc is its position, the other
\* fields are the locals of rank_results and _record_observations
Outside ==
    [pc |-> "outside", results |-> <<>>, method_groups |-> <<>>, drift_flags |-> <<>>,
     ranked |-> <<>>, i |-> 1, merged |-> <<>>]

\* __init__: the state is loaded from the file, _dirty_count = 0; the arguments
\* of a later rrf_fusion call are drawn from groups and ks
InitOver(files, groups, ks) ==
    /\ artifact \in files
    /\ state = load_state(artifact)
    /\ dirty_count = 0
    /\ call = "init"
    /\ raised = FALSE
    /\ results = <<>>
    /\ top_k = 0
    /\ scored = <<>>
    /\ ranked = <<>>
    /\ pre_state = state
    /\ observed = EmptyDict
    /\ drift_calls = EmptyDict
    /\ threads = [t \in Threads |-> Outside]
    /\ saves = 0
    /\ calls = 0
    /\ cycles = 0
    /\ snapshots = <<state.sources>>
    /\ save_log = <<>>
    /\ saved_now = "none"
    /\ query = <<>>
    /\ methods = NoMethods
    /\ outcomes = [structured |-> Returns(<<>>), fulltext |-> Returns(<<>>),
                   vector |-> Returns(<<>>)]
    /\ invoked = <<>>
    /\ methods_executed = <<>>
    /\ fusion_results = <<>>
    /\ results_groups \in groups
    /\ rrf_k \in ks
    /\ fused = <<>>

InitWith(files) == InitOver(files, {<<>>}, {DefaultK})

\* history: the scores of a call's method_groups, appended per pair
Observe(obs, groups) ==
    [p \in DOMAIN obs \cup DictKeys(groups) |->
        (IF p \in DOMAIN obs THEN obs[p] ELSE <<>>) \o DictGet(groups, p, <<>>)]

\* history: one more call for every pair that the call's drift_flags flag
Tally(tally, drift_flags) ==
    [p \in DOMAIN tally \cup {drift_flags[i][1] : i \in 1..Len(drift_flags)} |->
        (IF p \in DOMAIN tally THEN tally[p] ELSE 0)
          + (IF DictGet(drift_flags, p, FALSE) THEN 1 ELSE 0)]

\* history: the statistics after this update cycle join the last SaveEvery
Snapshot(snaps, sources) == LastN(Append(snaps, sources), SaveEvery)

\* the effect of one rank_results call, out, on the ranker and the history
RankedAs(out, rs, k, outcome) ==
    /\ state' = out.state
    /\ dirty_count' = out.dirty_count
    /\ artifact' = out.artifact
    /\ raised' = ~out.ok
    /\ results' = rs
    /\ top_k' = k
    /\ scored' = out.scored
    /\ ranked' = out.ranked
    /\ pre_state' = state
    /\ observed' = Observe(observed, out.groups)
    /\ drift_calls' = Tally(drift_calls, out.flags)
    /\ UNCHANGED threads
    /\ saves' = IF out.saved THEN saves + 1 ELSE saves
    /\ calls' = calls + 1
    /\ cycles' = IF out.ok /\ out.groups # <<>> THEN cycles + 1 ELSE cycles
    /\ snapshots' = IF out.ok /\ out.groups # <<>>
                    THEN Snapshot(snapshots, out.state.sources) ELSE snapshots
    /\ save_log' = IF out.saved
                   THEN Append(save_log, [cycle |-> cycles + 1, outcome |-> outcome])
                   ELSE save_log
    /\ saved_now' = IF out.saved THEN outcome ELSE "none"

Ranked(rs, k, outcome) ==
    \E out \in {rank_results(state, dirty_count, artifact, rs, k, calls + 1, outcome)} :
        RankedAs(out, rs, k, outcome)

\* the outcomes write_text can have in a call that reaches _save_state
SaveChoices == IF dirty_count + 1 >= SaveEvery THEN SaveOutcomes ELSE {"ok"}

\* a caller runs rank_results(rs, k)
RankResults(batches, ks) ==
    \E rs \in batches, k \in ks, outcome \in SaveChoices :
        /\ Ranked(rs, k, outcome)
        /\ call' = "rank_results"
        /\ UNCHANGED <<searchVars, rrfVars>>

\* search, lines 117-127, given what the retrieval methods left
SearchAs(got, fusion, q, m, k, outs) ==
    /\ \E outcome \in SaveChoices : Ranked(fusion, k, outcome)
    /\ call' = "search"
    /\ query' = q
    /\ methods' = m
    /\ outcomes' = outs
    /\ invoked' = got.invoked
    /\ methods_executed' = got.methods_executed
    /\ fusion_results' = fusion
    /\ UNCHANGED rrfVars

\* a caller runs search(q, m, top_k = k) on an engine whose retrieval methods
\* behave as outs
Search(q, m, k, outs) ==
    \E got \in {Retrieve(q, m, outs)} :
        \E fusion \in {FusionResults(got.all_results)} :
            SearchAs(got, fusion, q, m, k, outs)

RankCall == calls < MaxCalls /\ RankResults(Batches, TopKs)

SearchCall ==
    /\ calls < MaxCalls
    /\ \E q \in Queries, m \in MethodArgs, outs \in Outcomes :
          Search(q, m, MaxTopK, outs)

WindowCall == calls < MaxWindowCalls /\ RankResults(WindowBatches, {MaxTopK})

\* a save per SaveEvery update cycles, with write failures
SaveCall == calls < MaxSaveCalls /\ RankResults(SaveBatches, {MaxTopK})

\* the process dies inside the _save_state of a rank_results(rs, k) call, and a
\* new ranker is constructed over the file it leaves; the history starts anew
CrashedAs(out, rs, k) ==
    /\ out.ok /\ out.saved
    /\ artifact' \in CrashFiles(artifact, out.state)
    /\ state' = load_state(artifact')
    /\ dirty_count' = 0
    /\ call' = "crash"
    /\ raised' = FALSE
    /\ results' = rs
    /\ top_k' = k
    /\ scored' = <<>>
    /\ ranked' = <<>>
    /\ pre_state' = state
    /\ observed' = EmptyDict
    /\ drift_calls' = EmptyDict
    /\ UNCHANGED threads
    /\ saves' = 0
    /\ calls' = calls + 1
    /\ cycles' = 0
    /\ snapshots' = <<state'.sources>>
    /\ save_log' = <<>>
    /\ saved_now' = "none"
    /\ UNCHANGED <<searchVars, rrfVars>>

CrashInSave ==
    /\ calls < MaxSaveCalls
    /\ \E rs \in SaveBatches :
          \E out \in {rank_results(state, dirty_count, artifact, rs, MaxTopK,
                                   calls + 1, "ok")} :
              CrashedAs(out, rs, MaxTopK)

RerankCall == calls < MaxRerankCalls /\ RankResults(RerankBatches, TopKs)

\* a second ranker is constructed over the file, which still holds the state
\* the last call started from, and ranks what that call returned with the same
\* top_k; the history starts anew
RerankedAs(out) ==
    /\ state' = out.state
    /\ dirty_count' = out.dirty_count
    /\ artifact' = out.artifact
    /\ call' = "rerank"
    /\ raised' = ~out.ok
    /\ results' = ranked
    /\ top_k' = top_k
    /\ scored' = out.scored
    /\ ranked' = out.ranked
    /\ pre_state' = load_state(artifact)
    /\ observed' = Observe(EmptyDict, out.groups)
    /\ drift_calls' = Tally(EmptyDict, out.flags)
    /\ UNCHANGED threads
    /\ saves' = 0
    /\ calls' = calls + 1
    /\ cycles' = IF out.ok /\ out.groups # <<>> THEN 1 ELSE 0
    /\ snapshots' = IF out.ok /\ out.groups # <<>>
                    THEN Snapshot(<<load_state(artifact).sources>>, out.state.sources)
                    ELSE <<load_state(artifact).sources>>
    /\ save_log' = <<>>
    /\ saved_now' = "none"
    /\ UNCHANGED <<searchVars, rrfVars>>

Rerank ==
    /\ calls < MaxRerankCalls
    /\ call = "rank_results"
    /\ ~raised
    /\ load_state(artifact) = pre_state
    /\ \E out \in {rank_results(load_state(artifact), 0, artifact, ranked, top_k,
                                 calls + 1, "ok")} :
          RerankedAs(out)

\* rank_results on a ranker that starts empty or from a saved state
Init == InitWith({FileMissing, FileOf(SavedState)})
Next == RankCall
Spec == Init /\ [][Next]_vars

\* search on an engine whose ranker starts empty or from a saved state
NextSearch == SearchCall
SpecSearch == Init /\ [][NextSearch]_vars

\* rank_results with long results lists, from an empty calibration state
InitWindow == InitWith({FileMissing})
NextWindow == WindowCall
SpecWindow == InitWindow /\ [][NextWindow]_vars

\* rank_results up to and beyond the saves, with failing and interrupted writes
NextSave == SaveCall \/ CrashInSave
SpecSave == Init /\ [][NextSave]_vars

\* rank_results, and rank_results again on its output by a ranker constructed
\* over the same file
NextRerank == RerankCall \/ Rerank
SpecRerank == Init /\ [][NextRerank]_vars

\* rank_results on rankers whose file holds learned priors, or none
InitPrior == InitWith({FileMissing, FileOf(EditedPrior), FileOf(LearnedPriors)})
PriorCall == calls < MaxCalls /\ RankResults(PriorBatches, {MaxTopK})
NextPrior == PriorCall
SpecPrior == InitPrior /\ [][NextPrior]_vars

\* a caller runs rrf_fusion(results_groups, rrf_k)
Fuse ==
    /\ call = "init"
    /\ fused' = rrf_fusion(results_groups, rrf_k)
    /\ call' = "rrf_fusion"
    /\ UNCHANGED <<state, dirty_count, artifact, raised, results, top_k, scored,
                   ranked, pre_state, observed, drift_calls, saves, calls, cycles, snapshots,
                   save_log, saved_now, searchVars, results_groups, rrf_k, threads>>

\* rrf_fusion on lists with shared, repeated and missing ids
InitRRF == InitOver({FileMissing}, RRFInputs, RRFKs)
NextRRF == Fuse
SpecRRF == InitRRF /\ [][NextRRF]_vars

\* Two threads in rank_results on the same ranker.  Nothing in ranking.py takes
\* a lock, so the interpreter may switch threads between any two statements.
\* The steps below are cut where that matters for the statistics: after the
\* read of the window (line 253), and after each of the stores of lines 266-272.

OverlapBatches == {<<Pool[1]>>, <<Low, Pool[2]>>, <<Mixed>>}

\* every variable the steps of a thread leave alone
overlapFrame ==
    <<raised, results, top_k, scored, ranked, pre_state, observed, drift_calls,
      saves, cycles, snapshots, save_log, saved_now, searchVars, rrfVars>>

\* lines 67-111 and 249-250, given the drift flags dl and the scored results sl
EnteredAs(t, rs, groups, dl, sl) ==
    /\ state' = sl.state
    /\ threads' = [threads EXCEPT ![t] =
          [pc |-> IF groups = <<>> THEN "returned" ELSE "read",
           results |-> rs, method_groups |-> groups, drift_flags |-> dl.flags,
           ranked |-> TakeRanked(SortByScoreDesc(sl.scored), MaxTopK),
           i |-> 1, merged |-> <<>>]]
    /\ call' = "overlap"
    /\ UNCHANGED <<dirty_count, artifact, calls, overlapFrame>>

\* thread t calls rank_results(rs, MaxTopK) and runs it up to the loop of
\* _record_observations
Enter(t) ==
    /\ threads[t].pc = "outside"
    /\ \E rs \in OverlapBatches :
        \E groups \in {MethodGroups(rs, 1, Len(rs))} :
        \E dl \in {DriftLoop([ok |-> TRUE, state |-> state, flags |-> <<>>], groups, 1)} :
        \E sl \in {ScoringLoop([ok |-> TRUE, state |-> dl.state, scored |-> <<>>],
                               rs, dl.flags, 1, Len(rs))} :
            EnteredAs(t, rs, groups, dl, sl)

\* lines 252-258 for the group the thread is at: the window is read and merged
\* is built from it
ReadWindow(t) ==
    /\ threads[t].pc = "read"
    /\ \E key \in {threads[t].method_groups[threads[t].i][1]} :
        \E g \in {get_stats(state, key[1], key[2])} :
           /\ g.ok
           /\ state' = g.state
           /\ threads' = [threads EXCEPT ![t].pc = "store",
                 ![t].merged = Evict(StatsOf(g.state, key[1], key[2]).scores
                                     \o threads[t].method_groups[threads[t].i][2])]
    /\ call' = "overlap"
    /\ UNCHANGED <<dirty_count, artifact, calls, overlapFrame>>

\* line 266: stats["scores"] = merged
WriteScores(t) ==
    /\ threads[t].pc = "store"
    /\ \E key \in {threads[t].method_groups[threads[t].i][1]} :
          state' = [state EXCEPT !.sources.items[key[1]].methods[key[2]].scores =
                                    threads[t].merged]
    /\ threads' = [threads EXCEPT ![t].pc = "stats"]
    /\ call' = "overlap"
    /\ UNCHANGED <<dirty_count, artifact, calls, overlapFrame>>

\* lines 267-272: count, min, max, mean and std of merged are stored, and
\* drift_events is read and stored; then the loop goes on
WriteStats(t) ==
    /\ threads[t].pc = "stats"
    /\ \E key \in {threads[t].method_groups[threads[t].i][1]} :
          state' = [state EXCEPT !.sources.items[key[1]].methods[key[2]] =
              [StatsOfWindow(threads[t].merged,
                   IF DictGet(threads[t].drift_flags, key, FALSE)
                   THEN StatsOf(state, key[1], key[2]).drift_events + 1
                   ELSE StatsOf(state, key[1], key[2]).drift_events)
               EXCEPT !.scores = StatsOf(state, key[1], key[2]).scores]]
    /\ threads' = [threads EXCEPT
          ![t].pc = IF threads[t].i < Len(threads[t].method_groups)
                    THEN "read" ELSE "debounce",
          ![t].i = threads[t].i + 1]
    /\ call' = "overlap"
    /\ UNCHANGED <<dirty_count, artifact, calls, overlapFrame>>

\* lines 274-280 and 114, given what the debounce did
LeftAs(t, out) ==
    /\ state' = out.state
    /\ dirty_count' = out.dirty_count
    /\ artifact' = out.artifact
    /\ threads' = [threads EXCEPT ![t].pc = "returned"]
    /\ calls' = calls + 1
    /\ call' = "overlap"
    /\ UNCHANGED overlapFrame

\* the thread leaves _record_observations and rank_results returns
Leave(t) ==
    /\ threads[t].pc = "debounce"
    /\ \E outcome \in SaveChoices :
        \E out \in {Debounce(state, dirty_count, artifact, calls + 1, outcome)} :
            LeftAs(t, out)

NextOverlap ==
    \E t \in Threads :
        Enter(t) \/ ReadWindow(t) \/ WriteScores(t) \/ WriteStats(t) \/ Leave(t)
SpecOverlap == InitWindow /\ [][NextOverlap]_vars

\* both, on a ranker constructed over any file
InitFile == InitWith(Files)
NextFile == RankCall \/ SearchCall
SpecFile == InitFile /\ [][NextFile]_vars


----------------------------------------------------------------------------
(* Properties of search *)

RetrievalMethods == {"structured", "fulltext", "vector"}

\* the methods a search call asks for: those of the list given; all three when
\* no list is given or the list is empty
Requested ==
    IF methods.given /\ methods.list # <<>>
    THEN {methods.list[i] : i \in 1..Len(methods.list)}
    ELSE RetrievalMethods

\* the methods asked for when only an absent argument stands for all three
RequestedAsGiven ==
    IF methods.given THEN {methods.list[i] : i \in 1..Len(methods.list)}
    ELSE RetrievalMethods

\* the query holds a character that is not white space
QueryNotBlank == \E i \in 1..Len(query) : ~IsSpace(query[i])

\* the methods that were invoked and raised
Failed == {m \in RetrievalMethods : InSeq(m, invoked) /\ outcomes[m].raises}

\* outs with every raising method returning an empty list instead
Calm(outs) ==
    [m \in DOMAIN outs |-> IF outs[m].raises THEN Returns(<<>>) ELSE outs[m]]

\* search, run again from the state the last call started in, with the
\* outcomes outs: what is handed to the ranker and what is returned
Rerun(got, k) ==
    [fusion_results |-> FusionResults(got.all_results),
     methods_executed |-> got.methods_executed,
     ranked |-> rank_results(pre_state, 0, artifact,
                             FusionResults(got.all_results), k, calls, "ok").ranked]

\* C1: when a retrieval method raises, search still returns; the method is not
\* in methods_executed, no merged record and no returned result has a score or
\* a methods-used entry of it, and the records handed to the ranker, the
\* methods_executed list and the ranked results are those of the same call
\* with the failing method returning an empty list.
C1_FailingMethodCountsAsEmpty ==
    call = "search" =>
        /\ ~raised
        /\ \A m \in Failed :
              /\ ~InSeq(m, methods_executed)
              /\ \A i \in 1..Len(fusion_results) :
                    /\ ~DictHas(fusion_results[i].scores, m)
                    /\ ~InSeq(m, fusion_results[i].methods_used)
              /\ \A i \in 1..Len(ranked) : ~DictHas(ranked[i].scores, m)
        /\ [fusion_results |-> fusion_results, methods_executed |-> methods_executed,
            ranked |-> ranked]
             = Rerun(Retrieve(query, methods, Calm(outcomes)), top_k)

\* a search in which fulltext raised and vector's two items were ranked
C1_Witness ==
    /\ call = "search"
    /\ ~raised
    /\ "fulltext" \in Failed
    /\ InSeq("vector", methods_executed)
    /\ Len(ranked) = 2

\* the ids a method returned in the last search (none if it was not invoked or
\* raised)
ReturnedIds(m) ==
    IF InSeq(m, invoked) /\ ~outcomes[m].raises
    THEN {get_item_id(outcomes[m].batch[i][1]) : i \in 1..Len(outcomes[m].batch)}
    ELSE {}

\* the methods that returned the item id, structured before fulltext before vector
MethodsOf(id) == SelectSeq(DefaultMethods, LAMBDA m : id \in ReturnedIds(m))

\* C2: search merges by item identity: the records handed to the ranker are as
\* many as the distinct ids the methods returned, one per id; each record's
\* scores map has exactly one entry per method that returned the item, and its
\* methods-used list holds exactly those methods, each once, structured before
\* fulltext before vector.
C2_MergedByItemIdentity ==
    call = "search" =>
        /\ Len(fusion_results)
             = Cardinality(UNION {ReturnedIds(m) : m \in RetrievalMethods})
        /\ {fusion_results[i].id : i \in 1..Len(fusion_results)}
             = UNION {ReturnedIds(m) : m \in RetrievalMethods}
        /\ \A i \in 1..Len(fusion_results) :
              /\ Len(fusion_results[i].scores) = Len(MethodsOf(fusion_results[i].id))
              /\ DictKeys(fusion_results[i].scores)
                   = {m \in RetrievalMethods : fusion_results[i].id \in ReturnedIds(m)}
              /\ fusion_results[i].methods_used = MethodsOf(fusion_results[i].id)

\* a search that merged three items, one of them returned by all three
\* methods (and twice by fulltext)
C2_Witness ==
    /\ call = "search"
    /\ Len(fusion_results) = 3
    /\ \E i \in 1..Len(fusion_results) :
          fusion_results[i].methods_used = <<"structured", "fulltext", "vector">>

\* C3: methods_executed holds a method exactly when the method was requested,
\* was not skipped for an empty query, did not raise and returned at least one
\* result; it holds no method twice.
C3_MethodsExecutedExactly ==
    call = "search" =>
        /\ \A m \in RetrievalMethods :
              InSeq(m, methods_executed) <=>
                  /\ m \in Requested
                  /\ (m = "structured" \/ QueryNotBlank)
                  /\ ~outcomes[m].raises
                  /\ outcomes[m].batch # <<>>
        /\ \A i \in 1..Len(methods_executed) : methods_executed[i] \in RetrievalMethods
        /\ \A i, j \in 1..Len(methods_executed) :
              i # j => methods_executed[i] # methods_executed[j]

\* a search that invoked all three methods and executed structured only:
\* fulltext returned nothing, vector raised
C3_Witness ==
    /\ call = "search"
    /\ invoked = <<"structured", "fulltext", "vector">>
    /\ outcomes.fulltext = Returns(<<>>)
    /\ outcomes.vector.raises
    /\ methods_executed = <<"structured">>

\* C4 as stated: a method is invoked only if it is among the requested
\* methods, all three only when no methods argument is given; fulltext and
\* vector only if the query is non-empty after trimming; structured whatever
\* the query.
C4_InvokedOnlyIfGiven ==
    call = "search" =>
        /\ \A i \in 1..Len(invoked) : invoked[i] \in RequestedAsGiven
        /\ InSeq("fulltext", invoked) \/ InSeq("vector", invoked) => QueryNotBlank
        /\ InSeq("structured", invoked) <=> "structured" \in RequestedAsGiven

\* C4, amended: a method is invoked only if it is among the requested methods,
\* all three when no methods argument is given or the list given is empty;
\* fulltext and vector only if the query is non-empty after trimming;
\* structured whatever the query.
C4_InvokedOnlyIfRequested ==
    call = "search" =>
        /\ \A i \in 1..Len(invoked) : invoked[i] \in Requested
        /\ InSeq("fulltext", invoked) \/ InSeq("vector", invoked) => QueryNotBlank
        /\ InSeq("structured", invoked) <=> "structured" \in Requested

\* a search given methods = [] and a query that invoked all three methods
C4_Witness ==
    /\ call = "search"
    /\ methods = MethodsArg(<<>>)
    /\ invoked = <<"structured", "fulltext", "vector">>


----------------------------------------------------------------------------
(* Properties of rank_results *)

\* the last operation ran rank_results to its return
RankReturned == call = "rank_results" /\ ~raised

\* the place in the input of the result with this id (ids are distinct)
InputIndex(id) == CHOOSE i \in 1..Len(results) : results[i].id = id

\* the final score _score_result gave to the i-th input result
FinalOf(i) == scored[i].score

\* input result i is ordered before input result j: a higher final score, or
\* the same final score and an earlier place in the input
Precedes(i, j) ==
    \/ FinalOf(j).n * FinalOf(i).d < FinalOf(i).n * FinalOf(j).d
    \/ (FinalOf(i) = FinalOf(j) /\ i < j)

\* C5: rank_results(results, top_k) returns the first min(top_k, len(results))
\* of the input results ordered by final score descending, equal scores in
\* input order; every returned result is one of the input results and none is
\* returned twice.
C5_TopKByScoreStable ==
    RankReturned =>
        /\ Len(ranked) = Min(top_k, Len(results))
        /\ \A j \in 1..Len(ranked) :
              \E i \in 1..Len(results) :
                  /\ ranked[j].id = results[i].id
                  /\ ranked[j].source = results[i].source
                  /\ ranked[j].timestamp = results[i].timestamp
                  /\ ranked[j].scores = results[i].scores
        /\ \A j, l \in 1..Len(ranked) : j # l => ranked[j].id # ranked[l].id
        /\ \A j, l \in 1..Len(ranked) :
              j < l => Precedes(InputIndex(ranked[j].id), InputIndex(ranked[l].id))
        /\ \A i \in 1..Len(results) :
              (\A j \in 1..Len(ranked) : ranked[j].id # results[i].id) =>
                  \A j \in 1..Len(ranked) : Precedes(InputIndex(ranked[j].id), i)

\* a call with two results that tie on a positive final score, and top_k = 1:
\* the first of the input is the one returned
C5_Witness ==
    /\ RankReturned
    /\ Len(results) = 2
    /\ top_k = 1
    /\ FinalOf(1) = FinalOf(2)
    /\ FinalOf(1).n > 0
    /\ ranked[1].id = results[1].id

\* C6: a result with no scores gets final_score 0, and in the returned order
\* it never precedes a result whose final score is positive.
C6_NoScoresNeverOutrank ==
    RankReturned =>
        /\ \A i \in 1..Len(results) :
              results[i].scores = <<>> =>
                  /\ FinalOf(i).n = 0
                  /\ scored[i].r.metadata.fusion_trace.final_score = 0
        /\ \A j, l \in 1..Len(ranked) :
              (j < l /\ ranked[j].scores = <<>>) =>
                  FinalOf(InputIndex(ranked[l].id)).n = 0

\* a call, on a ranker with saved statistics, whose first input result has no
\* scores and is returned after a result with a positive final score
C6_Witness ==
    /\ RankReturned
    /\ Len(ranked) = 2
    /\ results[1].scores = <<>>
    /\ ranked[2].id = results[1].id
    /\ FinalOf(2).n > 0
    /\ pre_state = SavedState

\* the numeric scores of a result, clamped, in the order of its scores map
RawScores(r) ==
    [i \in 1..Len(SelectSeq(r.scores, LAMBDA e : e[2].num)) |->
        << SelectSeq(r.scores, LAMBDA e : e[2].num)[i][1],
           Max(0, Min(One, SelectSeq(r.scores, LAMBDA e : e[2].num)[i][2].v)) >>]

\* C7: every returned result carries metadata["fusion_trace"] with raw_scores,
\* normalized_scores and final_score of this call, and keeps every other
\* metadata key it had.
C7_TraceAttachedMetadataKept ==
    RankReturned =>
        \A j \in 1..Len(ranked) :
            /\ "fusion_trace" \in DOMAIN ranked[j].metadata
            /\ {"raw_scores", "normalized_scores", "final_score"}
                 \subseteq DOMAIN ranked[j].metadata.fusion_trace
            /\ ranked[j].metadata.fusion_trace.raw_scores
                 = RawScores(results[InputIndex(ranked[j].id)])
            /\ DictKeys(ranked[j].metadata.fusion_trace.normalized_scores)
                 = DictKeys(ranked[j].metadata.fusion_trace.raw_scores)
            /\ ranked[j].metadata.fusion_trace.final_score
                 = Round4(FinalOf(InputIndex(ranked[j].id)).n,
                          FinalOf(InputIndex(ranked[j].id)).d)
            /\ DOMAIN ranked[j].metadata
                 = DOMAIN results[InputIndex(ranked[j].id)].metadata
                     \cup {"fusion_trace"}
            /\ \A k \in DOMAIN results[InputIndex(ranked[j].id)].metadata
                          \ {"fusion_trace"} :
                  ranked[j].metadata[k] = results[InputIndex(ranked[j].id)].metadata[k]

\* a returned result that came with a metadata key and a stale fusion_trace:
\* the key is kept and the trace is the one of this call
C7_Witness ==
    /\ RankReturned
    /\ \E j \in 1..Len(ranked) :
          /\ results[InputIndex(ranked[j].id)].metadata
               = [x \in {"k", "fusion_trace"} |-> IF x = "k" THEN 7 ELSE StaleTrace]
          /\ ranked[j].metadata.k = 7
          /\ ranked[j].metadata.fusion_trace.final_score = 0
    /\ \E j \in 1..Len(ranked) : ranked[j].metadata.fusion_trace.final_score > 0


----------------------------------------------------------------------------
(* Properties of the calibration state *)

\* the statistics the state holds for a pair; those of an empty window when it
\* holds none
StoredStats(st, p) ==
    IF HasStats(st, p[1], p[2]) THEN StatsOf(st, p[1], p[2]) ELSE DefaultStats

\* the last n elements of a list, oldest first
MostRecent(s, n) == [i \in 1..Min(n, Len(s)) |-> s[Len(s) - Min(n, Len(s)) + i]]

\* C8: from an empty calibration state, after any sequence of rank_results
\* calls, the stored window of every (source, method) pair is the most recent
\* min(n, window_size) of the n clamped scores observed for the pair, in
\* observation order; count is the number of stored samples and never exceeds
\* window_size; once more than window_size samples were observed, count is
\* window_size.
C8_WindowIsMostRecent ==
    /\ \A p \in DOMAIN observed :
          /\ HasStats(state, p[1], p[2])
          /\ StoredStats(state, p).scores = MostRecent(observed[p], window_size)
          /\ StoredStats(state, p).count = Len(StoredStats(state, p).scores)
          /\ StoredStats(state, p).count <= window_size
          /\ Len(observed[p]) > window_size =>
                StoredStats(state, p).count = window_size
    /\ \A p \in StatePairs(state) \ DOMAIN observed :
          /\ StoredStats(state, p).scores = <<>>
          /\ StoredStats(state, p).count = 0

\* a pair that has been observed in three calls, more than window_size times in
\* all, and whose window lost samples of differing value
C8_Witness ==
    /\ calls >= 3
    /\ \E p \in DOMAIN observed :
          /\ Len(observed[p]) > window_size
          /\ StoredStats(state, p).count = window_size
          /\ StoredStats(pre_state, p).count < window_size
          /\ StoredStats(state, p).scores # SubSeq(observed[p], 1, window_size)

\* C9: for every pair whose stored count is below 20, normalization returns
\* every raw score unchanged; every item scored by a call that started with
\* fewer than 20 samples stored for its pair has a normalized score equal to
\* its clamped raw score.
C9_NoOpBelowTwenty ==
    /\ \A p \in StatePairs(state) :
          StoredStats(state, p).count < 20 =>
              \A x \in 0..One : normalize_score(state, p[1], p[2], x).norm = x
    /\ RankReturned =>
          \A i \in 1..Len(scored) :
              \A e \in 1..Len(scored[i].r.metadata.fusion_trace.normalized_scores) :
                  StoredStats(pre_state,
                              << results[i].source,
                                 scored[i].r.metadata.fusion_trace.normalized_scores[e][1] >>
                             ).count < 20 =>
                      /\ scored[i].r.metadata.fusion_trace.normalized_scores[e]
                           = scored[i].r.metadata.fusion_trace.raw_scores[e]
                      /\ scored[i].r.metadata.fusion_trace.raw_scores[e]
                           = RawScores(results[i])[e]

\* a call that started with two differing samples stored for email/vector
\* (min 0.5, max 1.0) and scored an item with raw score 0.5 there: its
\* normalized score is 0.5, where min-max normalization gives 0
C9_Witness ==
    /\ RankReturned
    /\ StoredStats(pre_state, <<"email", "vector">>).count \in 1..19
    /\ StoredStats(pre_state, <<"email", "vector">>).min = 1
    /\ StoredStats(pre_state, <<"email", "vector">>).max = 2
    /\ \E i \in 1..Len(scored) :
          /\ results[i].source = "email"
          /\ scored[i].r.metadata.fusion_trace.raw_scores = << <<"vector", 1>> >>
          /\ scored[i].r.metadata.fusion_trace.normalized_scores = << <<"vector", 1>> >>

\* C10: whatever the calibration file holds, constructing the ranker and
\* every later rank_results or search call complete without raising, and
\* content that cannot be used is treated as an empty version-1 state.
C10_AnyFileNeverRaises ==
    /\ call # "init" => ~raised
    /\ (call = "init" /\ artifact \in {FileMissing, FileGarbage, FileNotMapping}) =>
          state = DefaultState


----------------------------------------------------------------------------
(* Properties of persistence *)

\* the last call attempted a save and the write failed
SaveFailed == saved_now \in {"error_untouched", "error_truncated"}

\* no result of the list adds an observation
NothingRecordable(rs) ==
    \A i \in 1..Len(rs) :
        \/ rs[i].source = ""
        \/ \A e \in 1..Len(rs[i].scores) : ~rs[i].scores[e][2].num

\* C11: when writing the calibration file fails, rank_results returns its
\* ranked results without raising, the in-memory statistics hold every
\* observation recorded so far, the current batch included, and the next save
\* is attempted SaveEvery update cycles later.
C11_FailedSaveKeepsMemory ==
    /\ call = "rank_results" => ~raised
    /\ SaveFailed =>
          /\ Len(ranked) = Min(top_k, Len(results))
          /\ \A p \in DOMAIN observed :
                /\ HasStats(state, p[1], p[2])
                /\ MostRecent(StoredStats(state, p).scores, Len(observed[p]))
                     = observed[p]
                /\ StoredStats(state, p).count = Len(StoredStats(state, p).scores)
          /\ state.sources = snapshots[Len(snapshots)]
    /\ \A i \in 1..Len(save_log) :
          (save_log[i].outcome # "ok" /\ cycles >= save_log[i].cycle + 10) =>
              /\ i < Len(save_log)
              /\ save_log[i + 1].cycle = save_log[i].cycle + 10

\* a first save that failed with the file truncated, ten more update cycles,
\* and a second save attempted in the call that just returned two results
C11_Witness ==
    /\ call = "rank_results"
    /\ Len(save_log) = 2
    /\ save_log[1].outcome = "error_truncated"
    /\ saved_now = "error_untouched"
    /\ Len(ranked) = 2
    /\ artifact = FileGarbage

\* C12: a save is attempted on every 10th update cycle and on no other call;
\* the debounce counter stays in 0..9 between calls; a call with empty results
\* or with no recordable score neither writes the file nor advances the counter.
C12_SaveEveryTenthCycle ==
    /\ [](/\ dirty_count \in 0..9
          /\ dirty_count = cycles % 10
          /\ saves = cycles \div 10
          /\ Len(save_log) = saves
          /\ \A i \in 1..Len(save_log) : save_log[i].cycle = 10 * i
          /\ saved_now # "none" => (cycles > 0 /\ cycles % 10 = 0))
    /\ [][(call' = "rank_results" /\ NothingRecordable(results')) =>
             /\ artifact' = artifact
             /\ dirty_count' = dirty_count
             /\ state' = state
             /\ saved_now' = "none"]_vars

\* twenty update cycles among more calls: two saves, the counter back at 0
C12_Witness ==
    /\ cycles = 20
    /\ calls > cycles
    /\ saves = 2
    /\ dirty_count = 0
    /\ saved_now = "ok"

\* the statistics a ranker constructed now would load
Loaded == load_state(artifact).sources

BeingSaved ==
    rank_results(state, dirty_count, artifact, results', top_k', calls + 1, "ok").state

\* C14 as stated: a crash during a save leaves the old file or one that load
\* rejects, and a later load returns the old or the new saved state.
C14_CrashLoadsOldOrNew ==
    [][call' = "crash" =>
          /\ artifact' = artifact \/ load_state(artifact') = DefaultState
          /\ state' \in {load_state(artifact), BeingSaved}]_vars

\* C14, amended: a crash during a save leaves the old file, a file that load
\* rejects and replaces by an empty state, or the complete new file; a later
\* load returns the old saved state, the empty state or the new saved state,
\* never a mix of old and new statistics.
C14_CrashLoadsOldNewOrEmpty ==
    [][call' = "crash" =>
          /\ \/ artifact' = artifact
             \/ load_state(artifact') = DefaultState
             \/ artifact' = FileOf(BeingSaved)
          /\ state' \in {load_state(artifact), DefaultState, BeingSaved}]_vars

\* a ranker constructed after a crash that truncated the file: it starts
\* empty, while the process that died held statistics
C14_Witness ==
    /\ call = "crash"
    /\ artifact = FileGarbage
    /\ state = DefaultState
    /\ HasStats(pre_state, "email", "vector")
    /\ StoredStats(pre_state, <<"email", "vector">>).count > 60


----------------------------------------------------------------------------
(* Properties of re-ranking and of malformed input *)

\* the ids of a list of results, in order
IdsOf(rs) == [i \in 1..Len(rs) |-> rs[i].id]

\* the final scores reported in the traces of a list of returned results
FinalScoresOf(rs) == [i \in 1..Len(rs) |-> rs[i].metadata.fusion_trace.final_score]

\* the re-ranking returned the results it was given, in the order given, with
\* the final scores they came with
SameAsGiven ==
    /\ ~raised'
    /\ IdsOf(ranked') = IdsOf(ranked)
    /\ FinalScoresOf(ranked') = FinalScoresOf(ranked)

WellFormed(r) ==
    [r EXCEPT !.scores = SelectSeq(r.scores, LAMBDA e : e[2].num),
              !.methods_used =
                  [i \in 1..Len(SelectSeq(r.scores, LAMBDA e : e[2].num)) |->
                      SelectSeq(r.scores, LAMBDA e : e[2].num)[i][1]]]

WellFormedAll(rs) == [i \in 1..Len(rs) |-> WellFormed(rs[i])]

\* some result of the last call came with a score that is not a number
Malformed == \E i \in 1..Len(results) : WellFormed(results[i]) # results[i]

\* the last call, run from the state it started in, on the well-formed results
AsIfAbsent ==
    rank_results(pre_state, 0, artifact, WellFormedAll(results), top_k, calls, "ok")

\* the traces of a list of scored results
TracesOf(sc) == [i \in 1..Len(sc) |-> sc[i].r.metadata.fusion_trace]

\* C18: a score that is not a number is dropped for its item only: the call
\* does not raise, and it leaves the calibration state, the traces (raw and
\* normalized scores, signals, base score), the final scores and the order of
\* the results as the same call does when the malformed entries are absent.
C18_MalformedScoreDropped ==
    (call = "rank_results" /\ Malformed) =>
        /\ ~raised
        /\ state = AsIfAbsent.state
        /\ TracesOf(scored) = TracesOf(AsIfAbsent.scored)
        /\ [i \in 1..Len(scored) |-> scored[i].score]
             = [i \in 1..Len(scored) |-> AsIfAbsent.scored[i].score]
        /\ IdsOf(ranked) = IdsOf(AsIfAbsent.ranked)
        /\ \A i \in 1..Len(scored) :
              DictKeys(scored[i].r.metadata.fusion_trace.raw_scores)
                = {results[i].scores[e][1] :
                     e \in {x \in 1..Len(results[i].scores) : results[i].scores[x][2].num}}

\* a result with a numeric structured score and a vector score that is not a
\* number, ranked together with a result that has a vector score: only the
\* latter's sample joined the email/vector window
C18_Witness ==
    /\ RankReturned
    /\ IdsOf(results) = <<4, 1>>
    /\ DictKeys(scored[1].r.metadata.fusion_trace.raw_scores) = {"structured"}
    /\ scored[1].score.n > 0
    /\ StoredStats(state, <<"email", "vector">>).count
         = StoredStats(pre_state, <<"email", "vector">>).count + 1
    /\ StoredStats(state, <<"email", "structured">>).count = 1

\* C16: an invalid top_k (zero or negative) passed to rank_results surfaces to
\* the caller as a validation error: the call raises, returns no result list
\* and leaves the calibration state as it was.
C16_InvalidTopKRaises ==
    (call = "rank_results" /\ top_k <= 0) =>
        /\ raised
        /\ ranked = <<>>
        /\ state = pre_state
        /\ dirty_count = 0

----------------------------------------------------------------------------
(* Properties of the reliability prior *)

\* the prior configured for a source, if any
Configured(source) ==
    CASE source = "web"  -> [given |-> TRUE, v |-> 108]
      [] source = "news" -> [given |-> TRUE, v |-> 125]
      [] source = "wiki" -> [given |-> TRUE, v |-> 80]
      [] OTHER           -> [given |-> FALSE, v |-> 0]

\* the prior the state holds for a source, 1.0 (100) if none
Learned(st, source) ==
    IF source \in DOMAIN st.sources.items
         /\ "reliability_prior" \in DOMAIN st.sources.items[source]
    THEN st.sources.items[source].reliability_prior
    ELSE 100

\* a prior, in hundredths, clamped to [0.9, 1.1]
ClampedPrior(v) == IF v < 90 THEN 90 ELSE IF v > 110 THEN 110 ELSE v

\* the prior the claim expects for a result of the source
ExpectedPrior(st, source) ==
    IF Configured(source).given THEN ClampedPrior(Configured(source).v)
    ELSE ClampedPrior(Learned(st, source))

\* C17: the reliability_prior used for a result, and reported in its trace, is
\* the prior configured for its source clamped to [0.9, 1.1], whatever prior
\* the calibration state holds for the source; a source with no configured
\* prior uses the learned prior of the state (1.0 when there is none), clamped
\* alike.
C17_ConfiguredPriorOverridesLearned ==
    RankReturned =>
        \A i \in 1..Len(scored) :
            /\ scored[i].r.metadata.fusion_trace.reliability_prior
                 = 100 * ExpectedPrior(pre_state, results[i].source)
            /\ scored[i].score
                 = ClampFrac(Frac(results[i].scores[1][2].v
                                    * (1900 + ExpectedPrior(pre_state, results[i].source)),
                                  2 * 2000))

\* the state holds 0.95 for news and 0.85 for chat; news is configured with
\* 1.25 and chat is not configured: the traces report 1.1 and 0.9
C17_Witness ==
    /\ RankReturned
    /\ Learned(pre_state, "news") = 95
    /\ Learned(pre_state, "chat") = 85
    /\ Len(ranked) = 2
    /\ \E i, j \in 1..Len(scored) :
          /\ results[i].source = "news"
          /\ scored[i].r.metadata.fusion_trace.reliability_prior = 11000
          /\ results[j].source = "chat"
          /\ scored[j].r.metadata.fusion_trace.reliability_prior = 9000

----------------------------------------------------------------------------
(* Properties of the order of scoring and update *)

\* the drift flags of method_groups, from the statistics the last call
\* started with and the clamped scores of the batch
FlagsBefore(groups) ==
    [g \in 1..Len(groups) |->
        <<groups[g][1], DriftOf(StoredStats(pre_state, groups[g][1]), groups[g][2])>>]

\* scored result i of the last call is as the statistics before the call and
\* the drift flags make it
ScoredBefore(i, trace, flags) ==
    /\ \A e \in 1..Len(trace.normalized_scores) :
          trace.normalized_scores[e][2]
            = normalize_score(pre_state, results[i].source, trace.raw_scores[e][1],
                              trace.raw_scores[e][2]).norm
    /\ {trace.drift_detected_methods[e] : e \in 1..Len(trace.drift_detected_methods)}
         = {m \in DictKeys(trace.raw_scores) :
              DictGet(flags, <<results[i].source, m>>, FALSE)}
    /\ scored[i].score = score_result(pre_state, results[i], flags).score

\* C20: within one rank_results call every item is scored with the statistics
\* (count, min, max, mean, std) as they were before the call: its normalized
\* scores, its drift flags and its final score are those computed from the
\* state the call started in, whatever the batch itself adds to the windows.
C20_ScoredWithStatisticsBeforeCall ==
    RankReturned =>
        \A flags \in {FlagsBefore(MethodGroups(results, 1, Len(results)))} :
            \A i \in 1..Len(scored) :
                ScoredBefore(i, scored[i].r.metadata.fusion_trace, flags)

\* a call that started with fewer than 20 samples of email/vector and left 20
\* or more, between 0.5 and 1.0: an item with raw score 0.5 kept 0.5 as its
\* normalized score, where the statistics the call left would give 0
C20_Witness ==
    /\ RankReturned
    /\ StoredStats(pre_state, <<"email", "vector">>).count < 20
    /\ StoredStats(state, <<"email", "vector">>).count >= 20
    /\ StoredStats(state, <<"email", "vector">>).min = 1
    /\ StoredStats(state, <<"email", "vector">>).max = 2
    /\ normalize_score(state, "email", "vector", 1).norm = 0
    /\ \E i \in 1..Len(scored) :
          /\ results[i].source = "email"
          /\ scored[i].r.metadata.fusion_trace.raw_scores = << <<"vector", 1>> >>
          /\ scored[i].r.metadata.fusion_trace.normalized_scores = << <<"vector", 1>> >>

----------------------------------------------------------------------------
(* Properties of rrf_fusion *)

\* the ids that occur in the lists passed
GivenIds ==
    UNION {{results_groups[g][i].id : i \in 1..Len(results_groups[g])}
             : g \in 1..Len(results_groups)} \ {NoId}

\* the positions of a list that hold the id
PlacesOf(id, group) == {i \in 1..Len(group) : group[i].id = id}

\* the sum of 1/(k + p) over the positions p of a set
RECURSIVE ReciprocalSum(_, _)
ReciprocalSum(places, k) ==
    IF places = {} THEN [n |-> 0, d |-> 1]
    ELSE LET p == CHOOSE x \in places : TRUE
         IN  FracAdd(Frac(1, k + p), ReciprocalSum(places \ {p}, k))

\* the sum of fractions f[g] over g in gs
RECURSIVE SumOver(_, _)
SumOver(f, gs) ==
    IF gs = {} THEN [n |-> 0, d |-> 1]
    ELSE LET g == CHOOSE x \in gs : TRUE
         IN  FracAdd(f[g], SumOver(f, gs \ {g}))

\* 1/(k + rank + 1) summed over the lists that contain the id, rank being the
\* 0-based place of the id in the list (its first place)
OncePerList(id) ==
    SumOver([g \in 1..Len(results_groups) |->
                IF PlacesOf(id, results_groups[g]) = {} THEN [n |-> 0, d |-> 1]
                ELSE Frac(1, rrf_k + CHOOSE p \in PlacesOf(id, results_groups[g]) :
                                        \A q \in PlacesOf(id, results_groups[g]) : p <= q)],
            1..Len(results_groups))

\* 1/(k + rank + 1) summed over every place of the id in every list
OncePerOccurrence(id) ==
    SumOver([g \in 1..Len(results_groups) |->
                ReciprocalSum(PlacesOf(id, results_groups[g]), rrf_k)],
            1..Len(results_groups))

\* one entry per id given, ordered by score descending
OneEntryPerIdDescending ==
    /\ {fused[i].id : i \in 1..Len(fused)} = GivenIds
    /\ Len(fused) = Cardinality(GivenIds)
    /\ \A i, j \in 1..Len(fused) : i < j => ~FracLess(fused[i].score, fused[j].score)

\* C19 as stated: rrf_fusion returns one entry per distinct id of the input
\* lists, ordered by score descending, whose score is the sum over the lists
\* containing the id of 1/(k + rank + 1), each list contributing once.
C19_RRFOncePerList ==
    call = "rrf_fusion" =>
        /\ OneEntryPerIdDescending
        /\ \A i \in 1..Len(fused) : fused[i].score = OncePerList(fused[i].id)

\* C19, amended: rrf_fusion returns one entry per distinct id of the input
\* lists, ordered by score descending, whose score is the sum of
\* 1/(k + rank + 1) over every occurrence of the id in the lists: once per list
\* when no list repeats the id, once per occurrence when a list repeats it.
C19_RRFOncePerOccurrence ==
    call = "rrf_fusion" =>
        /\ OneEntryPerIdDescending
        /\ \A i \in 1..Len(fused) :
              /\ fused[i].score = OncePerOccurrence(fused[i].id)
              /\ (\A g \in 1..Len(results_groups) :
                     Cardinality(PlacesOf(fused[i].id, results_groups[g])) <= 1)
                   => fused[i].score = OncePerList(fused[i].id)

\* k = 60, lists [a, b] and [b]: b scores 1/62 + 1/61 and comes before a,
\* which scores 1/61
C19_Witness ==
    /\ call = "rrf_fusion"
    /\ rrf_k = 60
    /\ results_groups = << <<[id |-> "a"], [id |-> "b"]>>, <<[id |-> "b"]>> >>
    /\ fused = << [id |-> "b", score |-> [n |-> 123, d |-> 3782]],
                  [id |-> "a", score |-> [n |-> 1, d |-> 61]] >>


----------------------------------------------------------------------------
(* Properties of drift *)

\* the last operation was a rank_results call that returned
RankingReturned == call \in {"rank_results", "rerank"} /\ ~raised

\* the clamped numeric scores that the results of the last call with source
\* p[1] carry for method p[2], in the order of the results
BatchOf(p) ==
    LET of(i) == IF results[i].source = p[1] /\ DictHas(RawScores(results[i]), p[2])
                 THEN <<DictGet(RawScores(results[i]), p[2], 0)>> ELSE <<>>
        join[i \in 0..Len(results)] == IF i = 0 THEN <<>> ELSE join[i - 1] \o of(i)
    IN  join[Len(results)]

\* |batch mean - stored mean| > 1.5 * stored std, for a stored mean of
\* total/count and a stored variance of spread/count^2: squared and cleared
\* of denominators, 4 * (sum * count - total * n)^2 > 9 * n^2 * spread
FarFromMean(values, total, count, spread) ==
    4 * (SeqSum(values) * count - total * Len(values))
        * (SeqSum(values) * count - total * Len(values))
      > 9 * Len(values) * Len(values) * spread

\* drift as stated, from the statistics the call started with
DriftExpected(p) ==
    /\ StoredStats(pre_state, p).count >= 50
    /\ StoredStats(pre_state, p).std.n > 0
    /\ FarFromMean(BatchOf(p), StoredStats(pre_state, p).mean.n,
                   StoredStats(pre_state, p).count, StoredStats(pre_state, p).std.n)

\* the trace reports method e with the flag and the raw weight given
FlaggedAs(trace, e, flag) ==
    /\ (\E d \in 1..Len(trace.drift_detected_methods) :
           trace.drift_detected_methods[d] = trace.raw_scores[e][1]) <=> flag
    /\ trace.method_signals[e][2]
         = (IF flag THEN 17 ELSE 14) * trace.raw_scores[e][2]
             + (IF flag THEN 3 ELSE 6) * trace.normalized_scores[e][2]

\* C21: drift is decided once per call per (source, method) pair: a pair is
\* flagged exactly when its stored count is at least 50, its stored std is
\* positive and the batch mean is more than drift_z (1.5) stored stds from the
\* stored mean; every item of the source that carries the method gets this
\* flag and the raw weight 0.85 (flagged) or 0.7; a pair with fewer than 50
\* stored samples is never flagged.
C21_DriftPerQueryPerPair ==
    RankingReturned =>
        \A i \in 1..Len(scored) :
            \A e \in 1..Len(scored[i].r.metadata.fusion_trace.raw_scores) :
                /\ FlaggedAs(scored[i].r.metadata.fusion_trace, e,
                             DriftExpected(<<results[i].source,
                                             scored[i].r.metadata.fusion_trace.raw_scores[e][1]>>))
                /\ StoredStats(pre_state,
                               <<results[i].source,
                                 scored[i].r.metadata.fusion_trace.raw_scores[e][1]>>).count < 50
                     => scored[i].r.metadata.fusion_trace.drift_detected_methods = <<>>

\* a call that started with 60 stored samples of email/vector and ranked two
\* results with differing vector scores, 0.0 and 0.5, whose mean is far from
\* the stored one: both are flagged, and the signal of the second is
\* 0.85 * 0.5 + 0.15 * 0
C21_Witness ==
    /\ call = "rank_results"
    /\ ~raised
    /\ StoredStats(pre_state, <<"email", "vector">>).count = 60
    /\ IdsOf(results) = <<7, 2>>
    /\ scored[1].r.metadata.fusion_trace.drift_detected_methods = <<"vector">>
    /\ scored[2].r.metadata.fusion_trace.drift_detected_methods = <<"vector">>
    /\ scored[2].r.metadata.fusion_trace.method_signals = << <<"vector", 17>> >>

\* the drift_events counter the state holds for a pair, 0 when it holds none
DriftEvents(st, p) == StoredStats(st, p).drift_events

\* the call that leads to the next state flagged drift for the pair: some
\* result of the source reports the method among its drifted methods
FlaggedNext(p) ==
    \E i \in 1..Len(scored') :
        /\ results'[i].source = p[1]
        /\ \E d \in 1..Len(scored'[i].r.metadata.fusion_trace.drift_detected_methods) :
              scored'[i].r.metadata.fusion_trace.drift_detected_methods[d] = p[2]

\* C22: for every (source, method) pair, drift_events grows by exactly 1 in a
\* rank_results call that flagged drift for the pair and is left as it was by
\* every other call; it never decreases, and at every point it is the number
\* of calls so far that flagged drift for the pair.
C22_DriftEventsCountFlaggedCalls ==
    /\ [](\A p \in StatePairs(state) \cup DOMAIN drift_calls :
             DriftEvents(state, p) = IF p \in DOMAIN drift_calls THEN drift_calls[p] ELSE 0)
    /\ [][\A p \in StatePairs(state') \cup StatePairs(state) :
             /\ DriftEvents(state', p) >= DriftEvents(state, p)
             /\ DriftEvents(state', p)
                  = DriftEvents(state, p) + (IF FlaggedNext(p) THEN 1 ELSE 0)]_vars

\* four calls, of which one flagged drift for email/vector and the last did
\* not: the counter is 1 and the last call left it as it was
C22_Witness ==
    /\ RankReturned
    /\ calls = 4
    /\ drift_calls[<<"email", "vector">>] = 1
    /\ DriftEvents(state, <<"email", "vector">>) = 1
    /\ DriftEvents(pre_state, <<"email", "vector">>) = 1
    /\ StoredStats(state, <<"email", "vector">>).scores
         # StoredStats(pre_state, <<"email", "vector">>).scores


(* Properties of the course of one search *)

\* the place of a method in the order of the three blocks of search
BlockOf(m) == CHOOSE i \in 1..Len(DefaultMethods) : DefaultMethods[i] = m

\* C23: a search is one linear run: every retrieval method is invoked at most
\* once, structured before fulltext before vector; the ranker runs exactly once
\* per search, on the records merged from every method that returned, also
\* when every method failed or returned nothing, and the search returns after it.
C23_SearchIsLinearRankerOnce ==
    /\ [](call = "search" =>
            /\ \A i \in 1..Len(invoked) : invoked[i] \in RetrievalMethods
            /\ \A i, j \in 1..Len(invoked) :
                  i < j => BlockOf(invoked[i]) < BlockOf(invoked[j])
            /\ results = fusion_results
            /\ {results[i].id : i \in 1..Len(results)}
                 = UNION {ReturnedIds(m) : m \in RetrievalMethods}
            /\ ~raised)
    /\ [][call' = "search" => calls' = calls + 1]_vars

\* a search whose three methods were each invoked and failed or returned
\* nothing: the ranker still ran, once, on no records
C23_Witness ==
    /\ call = "search"
    /\ invoked = <<"structured", "fulltext", "vector">>
    /\ outcomes.structured.raises
    /\ outcomes.fulltext = Returns(<<>>)
    /\ outcomes.vector.raises
    /\ calls = 1
    /\ results = <<>>
    /\ ranked = <<>>
    /\ ~raised


(* Properties of overlapping calls *)

BothReturned == \A t \in Threads : threads[t].pc = "returned"

\* the statistics after thread a's call has run alone from the state the
\* ranker was constructed with, and thread b's call has run alone after it
SerialSources(a, b) ==
    rank_results(rank_results(pre_state, 0, FileMissing, threads[a].results,
                              MaxTopK, 1, "ok").state,
                 1, FileMissing, threads[b].results, MaxTopK, 2, "ok").state.sources

\* C24: when two rank_results calls on the same ranker overlap and both have
\* returned, the statistics of every (source, method) pair are those of one of
\* the two serial orders of the calls, and count equals the number of samples
\* held.
C24_OverlappingCallsSerialize ==
    BothReturned =>
        /\ \E a, b \in Threads :
              a # b /\ state.sources = SerialSources(a, b)
        /\ \A p \in StatePairs(state) :
              StoredStats(state, p).count = Len(StoredStats(state, p).scores)


(* Properties of the observations *)

\* the pairs (source, method) for which a result of the last call carries a
\* numeric score
BatchPairs ==
    UNION {{<<results[i].source, RawScores(results[i])[j][1]>> :
               j \in 1..Len(RawScores(results[i]))} : i \in 1..Len(results)}

\* the places in results of the results with source p[1] and a numeric score
\* for method p[2]
ScoredPlaces(p) ==
    SelectSeq([i \in 1..Len(results) |-> i],
              LAMBDA i : /\ results[i].source = p[1]
                         /\ DictHas(RawScores(results[i]), p[2]))

\* the samples the last call observed for the pair p: the clamped scores of
\* every result that has a source, in the order of the results
ObservedOf(p) ==
    IF p[1] = "" THEN <<>>
    ELSE LET places == ScoredPlaces(p)
         IN  [n \in 1..Len(places) |->
                 DictGet(RawScores(results[places[n]]), p[2], 0)]

\* the newest window_size elements of all
NewestOf(all) ==
    IF Len(all) > window_size
    THEN SubSeq(all, Len(all) - window_size + 1, Len(all)) ELSE all

\* C25: rank_results observes every result of the batch that has a source and
\* a numeric score, returned or not: the window of each pair is the window it
\* had followed by all the batch's scores for the pair, cut to the newest
\* window_size, and the statistics of a pair without a score in the batch are
\* as they were.
C25_ObservationsFromWholeBatch ==
    (call = "rank_results" /\ ~raised /\ results # <<>>) =>
        \A p \in StatePairs(state) \cup StatePairs(pre_state) \cup BatchPairs :
            \A before \in {StoredStats(pre_state, p)} :
            \A after \in {StoredStats(state, p)} :
            \A seen \in {ObservedOf(p)} :
               /\ after.scores = NewestOf(before.scores \o seen)
               /\ seen = <<>> => after = before

\* a call that returned two of its results and observed them all, evicting
\* older samples of the pair, while another pair of the state had no score in
\* the batch
C25_Witness ==
    /\ call = "rank_results"
    /\ ~raised
    /\ Len(ranked) = top_k
    /\ Len(results) > top_k
    /\ Len(ObservedOf(<<"email", "vector">>)) = Len(results)
    /\ StoredStats(pre_state, <<"email", "vector">>).count > 0
    /\ StoredStats(pre_state, <<"email", "vector">>).count + Len(results) > window_size
    /\ StoredStats(state, <<"email", "vector">>).count = window_size
    /\ HasStats(pre_state, "web", "fulltext")
    /\ StoredStats(state, <<"web", "fulltext">>) = StoredStats(pre_state, <<"web", "fulltext">>)

====
